---- MODULE Spec2Model ----
(***************************************************************************)
(* Model of the heuristic Playwright fixtures of dbk-poc-pw-test:          *)
(*   tests/context-playwright.ts (enhanced fixtures, lines 1-1010, and the *)
(*   older fixtures concatenated after them, lines 1011-1632) and          *)
(*   backup_context.ts (the older fixtures on their own).                   *)
(* Each fixture function is a small state machine; every await of the      *)
(* source is one step, and the outcome of each call into the automation    *)
(* library (resolve, reject, match count) is an input of that step.        *)
(***************************************************************************)
EXTENDS Integers, Naturals, Sequences, FiniteSets, TLC

VARIABLES
    \* ---- test.page fixture
    fxVariant,   \* which page fixture: "backup", "older", "enhanced"
    fxPc,        \* position inside the fixture
    fxStatus,    \* testInfo.status once the body has ended
    fxCaught,    \* the body's error reached the fixture's catch block
    fxThrown,    \* error leaving the fixture: "none", "test", "title"
    fxClosed,    \* resources the fixture has called close() on
    fxFiles,     \* diagnostic files written: <<kind, timestamp>>
    fxLog,       \* diagnostics steps run so far, with their outcome
    fxClock      \* wall clock (ms) read by new Date()

VARIABLES
    \* ---- resolveLocator
    rlVariant,   \* which resolveLocator: "enhanced" or "backup"
    rlPc,        \* "call" before the call, "done" after it
    rlPage,      \* the page: match count of every query in every frame
    rlScrollOk,  \* whether scrollIntoViewIfNeeded() of a hit resolves
    rlResult     \* what the call returned, with the queries it evaluated

VARIABLES
    \* ---- ensureDomReady
    now,         \* Date.now(), in ms
    edrPc,       \* position inside ensureDomReady
    edrStart,    \* `start` of the loading-indicator loop
    edrProbes,   \* probes for loading indicators made by this call
    edrLast      \* what the latest probe of this call found

VARIABLES
    \* ---- autoExpectVisible
    avVariant,   \* "enhanced" (calls ensureDomReady in its loop) or "backup"
    avPc,        \* position inside autoExpectVisible
    avStart,     \* `start`
    avTimeout,   \* timeoutMs
    avMatchable, \* FALSE: the hint never matches anything on the page
    avLoc,       \* locator resolved in the current iteration
    avLastErr,   \* lastErr: "none" or "not visible"
    avResult,    \* the locator returned
    avShown,     \* what toBeVisible found in the current iteration
    avError      \* the error thrown: "none", "timeout", "sleep"

VARIABLES
    \* ---- findFieldLocator
    ffPc,        \* "call" before the call, "done" after it
    ffDocs,      \* the input/textarea elements of every frame's document
    ffSemantic,  \* semantic
    ffHint,      \* hintText
    ffEvalFail,  \* index of the context whose evaluate() rejects, 0 for none
    ffResult     \* what the call returned

fxVars == <<fxVariant, fxPc, fxStatus, fxCaught, fxThrown, fxClosed, fxFiles, fxLog, fxClock>>
rlVars == <<rlVariant, rlPc, rlPage, rlScrollOk, rlResult>>
edrVars == <<now, edrPc, edrStart, edrProbes, edrLast>>
avVars == <<avVariant, avPc, avStart, avTimeout, avMatchable, avLoc, avLastErr, avResult, avShown, avError>>
ffVars == <<ffPc, ffDocs, ffSemantic, ffHint, ffEvalFail, ffResult>>

VARIABLES
    afVariant,   \* which autoFill runs
    afPc,        \* position inside autoFill
    afDocs,      \* the input/textarea elements of every frame's document
    afHint,      \* the fieldHint argument
    afK,         \* index of the next strategy of the strategy list
    afBest,      \* what findFieldLocator returned
    afWrites,    \* modifications of element values, oldest first
    afLog,       \* stages and strategies attempted, oldest first
    afError,     \* the hint text of the raised error, empty while none
    afFailed     \* whether some awaited call was rejected
afVars == <<afVariant, afPc, afDocs, afHint, afK, afBest, afWrites, afLog, afError, afFailed>>

\* what each fixture function leaves alone: the state of the others
VARIABLES
    acVariant,   \* which autoClick runs
    acPc,        \* position inside autoClick
    acPage,      \* match count of every query of every frame
    acHint,      \* the hint argument
    acCtx,       \* index of the context the enhanced scan is at
    acK,         \* index of the strategy the enhanced scan is at
    acLoc,       \* what resolveLocator returned
    acLog,       \* interaction attempts, oldest first
    acError      \* the error that left autoClick
acVars == <<acVariant, acPc, acPage, acHint, acCtx, acK, acLoc, acLog, acError>>

VARIABLES
    sgPc,        \* position of each invocation of suggestLocators
    sgPage,      \* match count of every query of every frame
    sgVis,       \* visibility of the first match of every query
    sgUrls,      \* URL of every frame
    sgUrlFails,  \* frames whose url() throws
    sgHint,      \* the hint argument
    sgPos,       \* number of candidates each invocation has evaluated
    sgOut,       \* the suggestions array of each invocation
    sgRet        \* the list each invocation returned
sgVars == <<sgPc, sgPage, sgVis, sgUrls, sgUrlFails, sgHint, sgPos, sgOut, sgRet>>

VARIABLES
    sdPc,        \* position inside suggestDummyReplacements
    sdCode,      \* the testCode argument
    sdDocs,      \* the nodes of every frame's document
    sdTodo,      \* the dummy pattern occurrences not yet handled
    sdOut        \* the entries of out
sdVars == <<sdPc, sdCode, sdDocs, sdTodo, sdOut>>

VARIABLES
    gcPc,        \* position inside getAllContexts and its caller
    gcFrames,    \* page.frames() at the time of the call
    gcBroken,    \* the frames on which every access fails
    gcPos,       \* number of frames the loop has handled
    gcContexts,  \* the contexts array
    gcAccess     \* outcome of the caller's access to one returned context
gcVars == <<gcPc, gcFrames, gcBroken, gcPos, gcContexts, gcAccess>>

VARIABLES
    dsPc,        \* position inside debugStep
    dsDelayEnv,  \* process.env.STEP_DELAY_MS
    dsPwdebug,   \* process.env.PWDEBUG
    dsConfirm,   \* process.env.STEP_CONFIRM
    dsTitleFails,\* whether page.title() rejects
    dsLog        \* the calls made on the page, in order
dsVars == <<dsPc, dsDelayEnv, dsPwdebug, dsConfirm, dsTitleFails, dsLog>>

VARIABLES
    smPc,        \* position inside smartAction
    smPrompt,    \* the instruction: its phrases in reading order
    smActions,   \* requirements.actions
    smIdx,       \* index of the action the loop is at
    smLog,       \* actions started and fixes tried, oldest first
    smError,     \* message of the error the catch block holds
    smThrown     \* message of the error that left smartAction
smVars == <<smPc, smPrompt, smActions, smIdx, smLog, smError, smThrown>>

VARIABLES
    lsPc,          \* whether the learning system exists
    lsLocators,    \* successfulLocators: context key -> locator texts, oldest first
    lsPatterns,    \* patterns: action type -> latest pattern of that type
    lsCalls,       \* the test code of every learnFromTest call so far, oldest first
    lsAnswer       \* what the latest getRecommendedLocators call returned
lsVars == <<lsPc, lsLocators, lsPatterns, lsCalls, lsAnswer>>

fxOthers == <<rlVars, edrVars, avVars, ffVars, afVars, acVars, sgVars, sdVars, gcVars, dsVars, smVars, lsVars>>
rlOthers == <<fxVars, edrVars, avVars, ffVars, afVars, acVars, sgVars, sdVars, gcVars, dsVars, smVars, lsVars>>
edrOthers == <<fxVars, rlVars, ffVars, afVars, acVars, sgVars, sdVars, gcVars, dsVars, smVars, lsVars>>
avOthers == <<fxVars, rlVars, ffVars, afVars, acVars, sgVars, sdVars, gcVars, dsVars, smVars, lsVars>>
ffOthers == <<fxVars, rlVars, edrVars, avVars, afVars, acVars, sgVars, sdVars, gcVars, dsVars, smVars, lsVars>>
sdOthers == <<fxVars, rlVars, edrVars, avVars, ffVars, afVars, acVars, sgVars, gcVars, dsVars, smVars, lsVars>>
sgOthers == <<fxVars, rlVars, edrVars, avVars, ffVars, afVars, acVars, sdVars, gcVars, dsVars, smVars, lsVars>>
acOthers == <<fxVars, rlVars, edrVars, avVars, ffVars, afVars, sgVars, sdVars, gcVars, dsVars, smVars, lsVars>>
afOthers == <<fxVars, rlVars, edrVars, avVars, ffVars, acVars, sgVars, sdVars, gcVars, dsVars, smVars, lsVars>>

gcOthers == <<fxVars, rlVars, edrVars, avVars, ffVars, afVars, acVars, sgVars, sdVars, dsVars, smVars, lsVars>>

dsOthers == <<fxVars, rlVars, edrVars, avVars, ffVars, afVars, acVars, sgVars, sdVars, gcVars, smVars, lsVars>>

smOthers == <<fxVars, rlVars, edrVars, avVars, ffVars, afVars, acVars, sgVars, sdVars, gcVars, dsVars, lsVars>>

lsOthers == <<fxVars, rlVars, edrVars, avVars, ffVars, afVars, acVars, sgVars, sdVars, gcVars, dsVars, smVars>>

vars == <<fxVars, rlVars, edrVars, avVars, ffVars, afVars, acVars, sgVars, sdVars, gcVars, dsVars, smVars, lsVars>>

(***************************************************************************)
(* Bounds of the model                                                     *)
(***************************************************************************)
\* largest time (ms) one diagnostic await of the fixture may take
MaxTick == 1
\* number of frames a page has besides its main frame
NumChildFrames == 1
\* number of queries of a page that match or throw (all others match nothing)
MaxExceptional == 2
\* autoExpectVisible is called with timeouts of up to MaxPolls poll intervals
MaxPolls == 2
MaxElems == 2

(***************************************************************************)
(* Constants of the program (ms)                                           *)
(***************************************************************************)
LoadTimeoutMs == 15000
SpinnerWindowMs == 15000
SpinnerPollMs == 300
VisiblePollMs == 500
ToBeVisibleTimeoutMs == 2000

(***************************************************************************)
(* test.page fixture                                                       *)
(***************************************************************************)
FxVariants == {"backup", "older", "enhanced"}
\* the two fixtures that launch their own browser and end in a try/finally
FxHangs(v) == v \in {"backup", "older"}
Resources == {"page", "context", "browser"}
\* testInfo.status values a finished body can leave
BodyStatuses == {"passed", "failed", "timedOut", "skipped"}

FxIdle ==
    /\ fxVariant = "none" /\ fxPc = "idle" /\ fxStatus = "none"
    /\ fxCaught = FALSE /\ fxThrown = "none" /\ fxClosed = {}
    /\ fxFiles = {} /\ fxLog = <<>> /\ fxClock = 0

\* state after the fixture has built the page and reached `await use(page)`
FxStart ==
    /\ fxVariant \in FxVariants
    /\ fxPc = "use"
    /\ fxStatus = "none"
    /\ fxCaught = FALSE
    /\ fxThrown = "none"
    /\ fxClosed = {}
    /\ fxFiles = {}
    /\ fxLog = <<>>
    /\ fxClock = 0

\* `await use(page)`: the body ends; a failing body's error may reach the fixture
FxUse ==
    /\ UNCHANGED fxOthers
    /\ fxPc = "use"
    /\ \E st \in BodyStatuses, thrown \in BOOLEAN :
        /\ (thrown => st \in {"failed", "timedOut"})
        /\ fxStatus' = st
        /\ fxCaught' = thrown
        /\ fxPc' = IF thrown
                   THEN (IF FxHangs(fxVariant) THEN "title" ELSE "analysis")
                   ELSE (IF FxHangs(fxVariant) THEN "finally" ELSE "done")
    /\ UNCHANGED <<fxVariant, fxThrown, fxClosed, fxFiles, fxLog, fxClock>>

\* catch block header: console.log('Page title:', await page.title()) is not
\* inside any try of the catch block
FxTitle ==
    /\ UNCHANGED fxOthers
    /\ fxPc = "title"
    /\ \E ok \in BOOLEAN, d \in 0..MaxTick :
        /\ fxLog' = Append(fxLog, <<"title", ok>>)
        /\ fxClock' = fxClock + d
        /\ IF ok
           THEN /\ fxPc' = IF fxVariant = "older" THEN "analysis" ELSE "dom"
                /\ fxThrown' = fxThrown
           ELSE /\ fxPc' = "finally"
                /\ fxThrown' = "title"
    /\ UNCHANGED <<fxVariant, fxStatus, fxCaught, fxClosed, fxFiles>>

\* try { await page.evaluate(analyzePage) } catch { log }; the enhanced fixture
\* then rethrows the body's error
FxAnalysis ==
    /\ UNCHANGED fxOthers
    /\ fxPc = "analysis"
    /\ \E ok \in BOOLEAN, d \in 0..MaxTick :
        /\ fxLog' = Append(fxLog, <<"analysis", ok>>)
        /\ fxClock' = fxClock + d
    /\ IF fxVariant = "enhanced"
       THEN fxPc' = "done" /\ fxThrown' = "test"
       ELSE fxPc' = "dom" /\ fxThrown' = fxThrown
    /\ UNCHANGED <<fxVariant, fxStatus, fxCaught, fxClosed, fxFiles>>

\* try { html = await page.content(); timestamp = new Date(); writeFileSync } catch { log }:
\* page.content() takes d, the timestamp is read, writeFileSync takes w
FxDom ==
    /\ UNCHANGED fxOthers
    /\ fxPc = "dom"
    /\ \E ok \in BOOLEAN, d \in 0..MaxTick, w \in 0..MaxTick :
        /\ fxLog' = Append(fxLog, <<"dom", ok>>)
        /\ fxClock' = fxClock + d + w
        /\ fxFiles' = IF ok THEN fxFiles \cup {<<"failure-dom", fxClock + d>>} ELSE fxFiles
    /\ fxPc' = "shot"
    /\ UNCHANGED <<fxVariant, fxStatus, fxCaught, fxThrown, fxClosed>>

\* try { timestamp = new Date(); await page.screenshot({path}) } catch { log };
\* then `await new Promise(() => {})`, which never settles
FxShot ==
    /\ UNCHANGED fxOthers
    /\ fxPc = "shot"
    /\ \E ok \in BOOLEAN, d \in 0..MaxTick :
        /\ fxLog' = Append(fxLog, <<"shot", ok>>)
        /\ fxClock' = fxClock + d
        /\ fxFiles' = IF ok THEN fxFiles \cup {<<"failure-screenshot", fxClock>>} ELSE fxFiles
    /\ fxPc' = "suspended"
    /\ UNCHANGED <<fxVariant, fxStatus, fxCaught, fxThrown, fxClosed>>

\* resources the finally block closes: all three, and only on status 'passed'
FxToClose(status) == IF status = "passed" THEN Resources ELSE {}

\* finally { if (testInfo.status === 'passed') close page, context, browser }
FxFinally ==
    /\ UNCHANGED fxOthers
    /\ fxPc = "finally"
    /\ fxClosed' = fxClosed \cup FxToClose(fxStatus)
    /\ fxPc' = "done"
    /\ UNCHANGED <<fxVariant, fxStatus, fxCaught, fxThrown, fxFiles, fxLog, fxClock>>

FxNext == FxUse \/ FxTitle \/ FxAnalysis \/ FxDom \/ FxShot \/ FxFinally

(***************************************************************************)
(* Frames and contexts                                                     *)
(***************************************************************************)
\* page.frames(): the main frame (0) first, then the child frames
Frames == [i \in 1..(NumChildFrames + 1) |-> i - 1]
PageCtx == [kind |-> "page", frame |-> 0]
FrameCtx(f) == [kind |-> "frame", frame |-> f]

\* getAllContexts: the page itself, then every frame of page.frames()
getAllContexts(frames) == <<PageCtx>> \o [i \in 1..Len(frames) |-> FrameCtx(frames[i])]

(***************************************************************************)
(* resolveLocator                                                          *)
(***************************************************************************)
RlVariants == {"enhanced", "backup"}

\* the enhanced list with the label query moved ahead of the role queries
EnhancedStrategiesLabelFirst ==
    << "label", "role=button", "role=link", "role=textbox", "placeholder", "text",
       "data-testid", "aria-label*=", "title*=", "button:has-text", "a:has-text" >>
\* the locator list of the enhanced resolveLocator, in source order
EnhancedStrategies ==
    << "role=button", "role=link", "role=textbox", "label", "placeholder", "text",
       "data-testid", "aria-label*=", "title*=", "button:has-text", "a:has-text" >>
\* the locator list of the older resolveLocator, in source order
BackupStrategies ==
    << "role=button", "role=link", "label", "placeholder", "text", "data-testid" >>

RlStrategies(v) == IF v = "enhanced" THEN EnhancedStrategies ELSE BackupStrategies
\* the enhanced resolver scans the page and all frames, the older one the page only
RlContexts(v, frames) == IF v = "enhanced" THEN getAllContexts(frames) ELSE <<PageCtx>>

AllStrategies == {EnhancedStrategies[i] : i \in 1..Len(EnhancedStrategies)}
QueryKeys == {<<Frames[i], s>> : i \in 1..Len(Frames), s \in AllStrategies}
\* a page maps each query of each frame to its match count; a negative count
\* stands for a query that throws
QThrows(n) == n < 0
ZeroPage == [k \in QueryKeys |-> 0]
RECURSIVE PagesUpTo(_, _)
PagesUpTo(n, outcomes) ==
    IF n = 0 THEN {ZeroPage}
    ELSE LET prev == PagesUpTo(n - 1, outcomes)
         IN prev \cup {[p EXCEPT ![k] = o] : p \in prev, k \in QueryKeys, o \in outcomes}

\* the pages resolveLocator is run on
RlPages == PagesUpTo(MaxExceptional, {-1, 1})

\* `await loc.first().count()`: a page scans its main frame
FirstCount(q, ctx, strat) ==
    LET n == q[<<ctx.frame, strat>>] IN IF n > 0 THEN 1 ELSE n

\* `await first.scrollIntoViewIfNeeded().catch(() => {})`: a rejected scroll is
\* swallowed, the hit is returned either way
ScrollKeepsHitBroken(scrollOk) == scrollOk
ScrollKeepsHit(scrollOk) == TRUE

RlMiss(log) == [found |-> FALSE, ctx |-> 0, strat |-> "none", log |-> log]

\* the two nested loops of resolveLocator from context ci, strategy si on;
\* log is the list of <<context index, strategy>> evaluated so far
RECURSIVE RlWalk(_, _, _, _, _, _, _)
RlWalk(strategies, contexts, q, scrollOk, ci, si, log) ==
    IF ci > Len(contexts) THEN RlMiss(log)
    ELSE IF si > Len(strategies)
    THEN RlWalk(strategies, contexts, q, scrollOk, ci + 1, 1, log)
    ELSE LET n == FirstCount(q, contexts[ci], strategies[si])
             seen == Append(log, <<ci, strategies[si]>>)
         IN IF n > 0 /\ ScrollKeepsHit(scrollOk)
            THEN [found |-> TRUE, ctx |-> ci, strat |-> strategies[si], log |-> seen]
            ELSE RlWalk(strategies, contexts, q, scrollOk, ci, si + 1, seen)

resolveLocator(v, frames, q, scrollOk) ==
    RlWalk(RlStrategies(v), RlContexts(v, frames), q, scrollOk, 1, 1, <<>>)

RlIdle ==
    /\ rlVariant = "none" /\ rlPc = "idle" /\ rlPage = ZeroPage
    /\ rlScrollOk = TRUE /\ rlResult = RlMiss(<<>>)

RlStart ==
    /\ rlVariant \in RlVariants
    /\ rlPc = "call"
    /\ rlPage \in RlPages
    /\ rlScrollOk \in BOOLEAN
    /\ rlResult = RlMiss(<<>>)

\* one call of resolveLocator(page, hint)
RlCall ==
    /\ UNCHANGED rlOthers
    /\ rlPc = "call"
    /\ rlResult' = resolveLocator(rlVariant, Frames, rlPage, rlScrollOk)
    /\ rlPc' = "done"
    /\ UNCHANGED <<rlVariant, rlPage, rlScrollOk>>

RlNext == RlCall

(***************************************************************************)
(* ensureDomReady                                                          *)
(***************************************************************************)
EdrIdle == now = 0 /\ edrPc = "idle" /\ edrStart = 0 /\ edrProbes = 0 /\ edrLast = "none"

EdrStart == now = 0 /\ edrPc = "dom" /\ edrStart = 0 /\ edrProbes = 0 /\ edrLast = "none"

\* a waitForLoadState with a timeout: resolves at once, rejects at once (page
\* gone) or rejects when the timeout has passed
LoadWaits == {<<TRUE, 0>>, <<FALSE, 0>>, <<FALSE, LoadTimeoutMs>>}

\* try { await page.waitForLoadState('domcontentloaded', { timeout: 15000 }) } catch {}
EdrDomLoaded ==
    /\ edrPc = "dom"
    /\ \E w \in LoadWaits : now' = now + w[2]
    /\ edrPc' = "net"
    /\ UNCHANGED <<edrStart, edrProbes, edrLast>>

\* try { await page.waitForLoadState('networkidle', { timeout: 15000 }) } catch {};
\* const start = Date.now()
EdrNetworkIdle ==
    /\ edrPc = "net"
    /\ \E w \in LoadWaits : /\ now' = now + w[2]
                            /\ edrStart' = now + w[2]
    /\ edrPc' = "probe"
    /\ UNCHANGED <<edrProbes, edrLast>>

\* a loop whose catch block does not break: only a probe finding no indicator ends it
ProbeEndsOnClearOnly(outcome) == outcome = "clear"
\* whether a probe outcome ends the loop: no indicator present, or the probe threw
ProbeEndsLoop(outcome) == outcome \in {"clear", "throws"}

\* while (Date.now() - start < 15000) { try { hasSpinner = await page.evaluate(..);
\* if (!hasSpinner) break; } catch { break; } ...
EdrProbe ==
    /\ edrPc = "probe"
    /\ IF now - edrStart < SpinnerWindowMs
       THEN \E outcome \in {"spinner", "clear", "throws"} :
               /\ edrProbes' = edrProbes + 1
               /\ edrLast' = outcome
               /\ edrPc' = IF ProbeEndsLoop(outcome) THEN "returned" ELSE "sleep"
       ELSE edrPc' = "returned" /\ edrProbes' = edrProbes /\ edrLast' = edrLast
    /\ UNCHANGED <<now, edrStart>>

\* ... await page.waitForTimeout(300); } : the sleep stands outside the try
EdrSleep ==
    /\ edrPc = "sleep"
    /\ \E ok \in BOOLEAN :
         IF ok THEN now' = now + SpinnerPollMs /\ edrPc' = "probe"
         ELSE now' = now /\ edrPc' = "threw"
    /\ UNCHANGED <<edrStart, edrProbes, edrLast>>

\* the steps of one ensureDomReady call, whoever made it
EdrStep == EdrDomLoaded \/ EdrNetworkIdle \/ EdrProbe \/ EdrSleep

EdrRunDomLoaded == EdrDomLoaded /\ UNCHANGED edrOthers /\ UNCHANGED avVars
EdrRunNetworkIdle == EdrNetworkIdle /\ UNCHANGED edrOthers /\ UNCHANGED avVars
EdrRunProbe == EdrProbe /\ UNCHANGED edrOthers /\ UNCHANGED avVars
EdrRunSleep == EdrSleep /\ UNCHANGED edrOthers /\ UNCHANGED avVars

EdrNext == EdrRunDomLoaded \/ EdrRunNetworkIdle \/ EdrRunProbe \/ EdrRunSleep

(***************************************************************************)
(* autoExpectVisible                                                       *)
(***************************************************************************)
AvVariants == {"enhanced", "backup"}
NoLoc == [ctx |-> 0, strat |-> "none"]
\* timeoutMs values tried: whole poll intervals and values between them, and one
\* that outlasts a failed visibility check and the sleep after it
AvTimeouts ==
    {k * VisiblePollMs + off : k \in 0..MaxPolls, off \in {0, 200}}
        \cup {ToBeVisibleTimeoutMs + VisiblePollMs + 200}
\* the page as one poll may find it: nothing matches, one query throws, a button
\* of the main frame matches, or a text of the last child frame matches
AvPagesAll ==
    { ZeroPage,
      [ZeroPage EXCEPT ![<<0, "label">>] = -1],
      [ZeroPage EXCEPT ![<<0, "role=button">>] = 1],
      [ZeroPage EXCEPT ![<<NumChildFrames, "text">>] = 1] }
AvPagesNoMatch == {q \in AvPagesAll : \A k \in QueryKeys : q[k] <= 0}
AvPages(matchable) == IF matchable THEN AvPagesAll ELSE AvPagesNoMatch

AvIdle ==
    /\ avVariant = "none" /\ avPc = "idle" /\ avStart = 0 /\ avTimeout = 0
    /\ avMatchable = FALSE /\ avLoc = NoLoc /\ avLastErr = "none"
    /\ avResult = NoLoc /\ avShown = "unchecked" /\ avError = "none"

\* const start = Date.now(); let lastErr
AvStart ==
    /\ avVariant \in AvVariants
    /\ avPc = "check"
    /\ avStart = 0
    /\ avTimeout \in AvTimeouts
    /\ avMatchable \in BOOLEAN
    /\ avLoc = NoLoc /\ avLastErr = "none" /\ avResult = NoLoc /\ avShown = "unchecked"
    /\ avError = "none"

\* while (Date.now() - start < timeoutMs) ... ; throw new Error(...) after it
AvCheck ==
    /\ UNCHANGED avOthers
    /\ avPc = "check"
    /\ IF now - avStart < avTimeout
       THEN /\ avPc' = IF avVariant = "enhanced" THEN "ready" ELSE "resolve"
            /\ edrPc' = IF avVariant = "enhanced" THEN "dom" ELSE edrPc
            /\ edrProbes' = 0
            /\ edrLast' = "none"
            /\ avError' = avError
       ELSE /\ avPc' = "threw"
            /\ avError' = "timeout"
            /\ UNCHANGED <<edrPc, edrProbes, edrLast>>
    /\ UNCHANGED <<now, edrStart, avVariant, avStart, avTimeout, avMatchable, avLoc,
                   avLastErr, avResult, avShown>>

\* await ensureDomReady(page): its steps, then its return or its error
AvReady ==
    /\ UNCHANGED avOthers
    /\ avPc = "ready"
    /\ \/ /\ EdrStep
          /\ UNCHANGED avVars
       \/ /\ edrPc = "returned"
          /\ edrPc' = "idle"
          /\ avPc' = "resolve"
          /\ UNCHANGED <<now, edrStart, edrProbes, edrLast, avVariant, avStart, avTimeout,
                         avMatchable, avLoc, avLastErr, avResult, avShown, avError>>
       \/ /\ edrPc = "threw"
          /\ edrPc' = "idle"
          /\ avPc' = "threw"
          /\ avError' = "sleep"
          /\ UNCHANGED <<now, edrStart, edrProbes, edrLast, avVariant, avStart, avTimeout,
                         avMatchable, avLoc, avLastErr, avResult, avShown>>

\* const loc = await resolveLocator(page, hint); if (loc) ...
AvResolve ==
    /\ UNCHANGED avOthers
    /\ avPc = "resolve"
    /\ \E q \in AvPages(avMatchable), scrollOk \in BOOLEAN :
        LET r == resolveLocator(avVariant, Frames, q, scrollOk)
        IN /\ avLoc' = IF r.found THEN [ctx |-> r.ctx, strat |-> r.strat] ELSE NoLoc
           /\ avPc' = IF r.found THEN "visible" ELSE "sleep"
    /\ UNCHANGED <<edrVars, avVariant, avStart, avTimeout, avMatchable, avLastErr,
                   avResult, avShown, avError>>

\* an expect(loc).toBeVisible() that resolves whatever the element shows
ToBeVisibleAlwaysPasses(shown) == TRUE
\* expect(loc).toBeVisible() resolves for a visible element and rejects otherwise
ToBeVisiblePasses(shown) == shown = "visible"

\* try { await expect(loc).toBeVisible({ timeout: 2000 }); return loc } catch (e) { lastErr = e }
AvVisible ==
    /\ UNCHANGED avOthers
    /\ avPc = "visible"
    /\ \E shown \in {"visible", "hidden"} :
       /\ avShown' = shown
       /\ IF ToBeVisiblePasses(shown)
         THEN /\ avResult' = avLoc
              /\ avPc' = "returned"
              /\ UNCHANGED <<now, avLastErr>>
         ELSE /\ avLastErr' = "not visible"
              /\ now' = now + ToBeVisibleTimeoutMs
              /\ avPc' = "sleep"
              /\ avResult' = avResult
    /\ UNCHANGED <<edrPc, edrStart, edrProbes, edrLast, avVariant, avStart, avTimeout, avMatchable,
                   avLoc, avError>>

\* await page.waitForTimeout(500)
AvSleep ==
    /\ UNCHANGED avOthers
    /\ avPc = "sleep"
    /\ \E ok \in BOOLEAN :
         IF ok THEN /\ now' = now + VisiblePollMs
                    /\ avPc' = "check"
                    /\ avError' = avError
         ELSE /\ now' = now
              /\ avPc' = "threw"
              /\ avError' = "sleep"
    /\ avLoc' = NoLoc
    /\ avShown' = "unchecked"
    /\ UNCHANGED <<edrPc, edrStart, edrProbes, edrLast, avVariant, avStart, avTimeout, avMatchable,
                   avLastErr, avResult>>

AvNext == AvCheck \/ AvReady \/ AvResolve \/ AvVisible \/ AvSleep

(***************************************************************************)
(* Strings: sequences of one-character strings                             *)
(***************************************************************************)
UpperChars == <<"A", "B", "C", "D", "E", "F", "G", "H", "I", "J", "K", "L", "M",
                "N", "O", "P", "Q", "R", "S", "T", "U", "V", "W", "X", "Y", "Z">>
LowerChars == <<"a", "b", "c", "d", "e", "f", "g", "h", "i", "j", "k", "l", "m",
                "n", "o", "p", "q", "r", "s", "t", "u", "v", "w", "x", "y", "z">>
LowerChar(c) ==
    IF \E i \in 1..Len(UpperChars) : UpperChars[i] = c
    THEN LowerChars[CHOOSE i \in 1..Len(UpperChars) : UpperChars[i] = c]
    ELSE c
\* String.prototype.toLowerCase
ToLower(s) == [i \in 1..Len(s) |-> LowerChar(s[i])]
\* String.prototype.includes
Includes(s, t) == \E i \in 1..(Len(s) - Len(t) + 1) : SubSeq(s, i, i + Len(t) - 1) = t

\* A regular expression of the source is a set of alternatives; an alternative
\* is a sequence of literal parts with \s* between them.
RECURSIVE MatchAt(_, _, _)
MatchAt(parts, s, i) ==
    LET p == Head(parts)
        after == i + Len(p)
    IN /\ after - 1 <= Len(s)
       /\ SubSeq(s, i, after - 1) = p
       /\ \/ Len(parts) = 1
          \/ \E j \in after..(Len(s) + 1) :
                /\ \A k \in after..(j - 1) : s[k] = " "
                /\ MatchAt(Tail(parts), s, j)
\* RegExp.prototype.test for a pattern with the i flag
RegexTest(rx, s) ==
    LET low == ToLower(s)
    IN \E alt \in rx : \E i \in 1..Len(low) : MatchAt(alt, low, i)

(***************************************************************************)
(* findFieldLocator: the field scorer                                      *)
(***************************************************************************)
Semantics == {"username", "password", "code", "email", "text"}

\* tokenSets
TokUsername == { {<<<<"u", "s", "e", "r">>>>}, {<<<<"u", "s", "e", "r", "n", "a", "m", "e">>>>}, {<<<<"l", "o", "g", "i", "n">>>>}, {<<<<"e", "m", "a", "i", "l">>>>},
                 {<<<<"o", "n", "l", "i", "n", "e">>, <<"i", "d">>>>} }
TokPassword == { {<<<<"p", "a", "s", "s">>>>}, {<<<<"p", "w", "d">>>>}, {<<<<"p", "a", "s", "s", "w", "o", "r", "d">>>>} }
TokCode == { {<<<<"c", "o", "d", "e">>>>}, {<<<<"o", "t", "p">>>>}, {<<<<"v", "e", "r", "i", "f", "i", "c", "a", "t", "i", "o", "n">>>>}, {<<<<"t", "o", "k", "e", "n">>>>} }
TokEmail == { {<<<<"e", "m", "a", "i", "l">>>>} }
\* includesAny(text, regs)
includesAny(text, regs) == \E r \in regs : RegexTest(r, text)

\* el.type read as "text" whatever the type attribute says
ElTypeAlwaysText(el) == "text"
\* el.type: an input without a type attribute is a text input
ElType(el) == IF el.typeAttr = "" THEN "text" ELSE el.typeAttr

\* the bonus a field earns for each of placeholder, aria-label and label text
GeneralBonus == 5
\* least score an element needs to be returned
MinFieldScore == 25

\* scoreFor(el) under `semantic` and `hintText`
scoreFor(el, semantic, hintText) ==
    LET type == ElType(el)
        name == ToLower(el.name)
        id == ToLower(el.id)
        cls == ToLower(el.cls)
        placeholder == ToLower(el.placeholder)
        aria == ToLower(el.aria)
        autocomplete == ToLower(el.autocomplete)
        lbl == ToLower(el.lbl)
        hint == ToLower(hintText)
        all == name \o id \o cls \o placeholder \o aria \o lbl \o hint
        vis == IF el.visible THEN 0 ELSE -200
        sem ==
            IF semantic = "password"
            THEN (IF type = "password" THEN 150 ELSE -80)
                 + (IF includesAny(all, TokPassword) THEN 60 ELSE 0)
                 + (IF Includes(autocomplete, <<"c", "u", "r", "r", "e", "n", "t", "-", "p", "a", "s", "s", "w", "o", "r", "d">>)
                       \/ Includes(autocomplete, <<"n", "e", "w", "-", "p", "a", "s", "s", "w", "o", "r", "d">>) THEN 40 ELSE 0)
                 + (IF includesAny(name \o id, TokUsername) THEN -60 ELSE 0)
            ELSE IF semantic \in {"username", "email"}
            THEN (IF type = "password" THEN -150 ELSE 0)
                 + (IF type = "email" THEN 40 ELSE 0)
                 + (IF includesAny(all, TokUsername) THEN 70 ELSE 0)
                 + (IF Includes(autocomplete, <<"u", "s", "e", "r", "n", "a", "m", "e">>)
                       \/ Includes(autocomplete, <<"e", "m", "a", "i", "l">>) THEN 50 ELSE 0)
                 + (IF includesAny(name \o id \o placeholder \o aria \o lbl, TokPassword)
                    THEN -60 ELSE 0)
            ELSE IF semantic = "code"
            THEN (IF type = "password" THEN -40 ELSE 0)
                 + (IF includesAny(all, TokCode) THEN 80 ELSE 0)
                 + (IF Includes(autocomplete, <<"o", "n", "e", "-", "t", "i", "m", "e", "-", "c", "o", "d", "e">>) THEN 60 ELSE 0)
            ELSE (IF type \in {"text", "search", "tel"} THEN 10 ELSE 0)
        general == (IF placeholder # <<>> THEN GeneralBonus ELSE 0)
                   + (IF aria # <<>> THEN GeneralBonus ELSE 0)
                   + (IF lbl # <<>> THEN GeneralBonus ELSE 0)
    IN vis + sem + general

\* a forEach that replaces best on s >= best.score: of equal scores the last wins
RECURSIVE BestFromLatest(_, _, _, _, _)
BestFromLatest(doc, semantic, hintText, i, best) ==
    IF i >= Len(doc) THEN best
    ELSE LET s == scoreFor(doc[i + 1], semantic, hintText)
         IN BestFromLatest(doc, semantic, hintText, i + 1,
                           IF best.idx = -1 \/ s >= best.score
                           THEN [idx |-> i, score |-> s] ELSE best)

\* elements.forEach((el, i) => { if (s > best.score) best = { idx: i, score: s } }),
\* from element i (0-based) on; idx -1 stands for the initial score -Infinity
RECURSIVE BestFrom(_, _, _, _, _)
BestFrom(doc, semantic, hintText, i, best) ==
    IF i >= Len(doc) THEN best
    ELSE LET s == scoreFor(doc[i + 1], semantic, hintText)
         IN BestFrom(doc, semantic, hintText, i + 1,
                     IF best.idx = -1 \/ s > best.score
                     THEN [idx |-> i, score |-> s] ELSE best)

\* return best.score >= 25 ? best.idx : -1, without the threshold
AcceptBestUnchecked(best) == best.idx
\* return best.score >= 25 ? best.idx : -1
AcceptBest(best) == IF best.idx >= 0 /\ best.score >= MinFieldScore THEN best.idx ELSE -1

\* the evaluate() callback: index of the best element of one document, or -1
BestIndex(doc, semantic, hintText) ==
    AcceptBest(BestFrom(doc, semantic, hintText, 0, [idx |-> -1, score |-> 0]))

FfNone == [kind |-> "none", ctx |-> 0, frame |-> 0, idx |-> -1]
FfThrew(ci) == [kind |-> "threw", ctx |-> ci, frame |-> 0, idx |-> -1]

\* the loop of findFieldLocator over the contexts, from context ci on; the
\* evaluate() of context evalFail rejects and the rejection leaves the function
RECURSIVE FfWalk(_, _, _, _, _, _)
FfWalk(contexts, docs, semantic, hintText, evalFail, ci) ==
    IF ci > Len(contexts) THEN FfNone
    ELSE IF ci = evalFail THEN FfThrew(ci)
    ELSE LET doc == docs[contexts[ci].frame]
             idx == BestIndex(doc, semantic, hintText)
         IN IF idx >= 0 /\ idx < Len(doc)
            THEN [kind |-> "found", ctx |-> ci, frame |-> contexts[ci].frame, idx |-> idx]
            ELSE FfWalk(contexts, docs, semantic, hintText, evalFail, ci + 1)

findFieldLocator(frames, docs, semantic, hintText, evalFail) ==
    FfWalk(getAllContexts(frames), docs, semantic, hintText, evalFail, 1)

(***************************************************************************)
(* Documents                                                               *)
(***************************************************************************)
\* <input> with neither attributes nor label
PlainInput ==
    [typeAttr |-> "", name |-> <<>>, id |-> <<>>, cls |-> <<>>,
     placeholder |-> <<>>, aria |-> <<>>, autocomplete |-> <<>>,
     lbl |-> <<>>, lblAfter |-> FALSE, visible |-> TRUE]
\* <input id="u"> followed by <label for="u">Username</label>
UsernameInput ==
    [typeAttr |-> "", name |-> <<>>, id |-> <<"u">>, cls |-> <<>>,
     placeholder |-> <<>>, aria |-> <<>>, autocomplete |-> <<>>,
     lbl |-> <<"U", "s", "e", "r", "n", "a", "m", "e">>, lblAfter |-> TRUE, visible |-> TRUE]
\* <input type="password">
PasswordInput ==
    [typeAttr |-> "password", name |-> <<>>, id |-> <<>>, cls |-> <<>>,
     placeholder |-> <<>>, aria |-> <<>>, autocomplete |-> <<>>,
     lbl |-> <<>>, lblAfter |-> FALSE, visible |-> TRUE]
\* hidden password input with placeholder, aria-label and a label
HiddenPasswordInput ==
    [typeAttr |-> "password", name |-> <<>>, id |-> <<>>, cls |-> <<>>,
     placeholder |-> <<"S", "e", "c", "r", "e", "t">>, aria |-> <<"S", "e", "c", "r", "e", "t">>, autocomplete |-> <<>>,
     lbl |-> <<"S", "e", "c", "r", "e", "t">>, lblAfter |-> FALSE, visible |-> FALSE]
\* visible text input that browsers treat as a password field
RevealedPasswordInput ==
    [typeAttr |-> "text", name |-> <<>>, id |-> <<>>, cls |-> <<>>,
     placeholder |-> <<"S", "e", "c", "r", "e", "t">>, aria |-> <<"S", "e", "c", "r", "e", "t">>, autocomplete |-> <<"c", "u", "r", "r", "e", "n", "t", "-", "p", "a", "s", "s", "w", "o", "r", "d">>,
     lbl |-> <<"S", "e", "c", "r", "e", "t">>, lblAfter |-> FALSE, visible |-> TRUE]
\* <input type="text" name="username">
NamedUserInput ==
    [typeAttr |-> "text", name |-> <<"u", "s", "e", "r", "n", "a", "m", "e">>, id |-> <<>>, cls |-> <<>>,
     placeholder |-> <<>>, aria |-> <<>>, autocomplete |-> <<>>,
     lbl |-> <<>>, lblAfter |-> FALSE, visible |-> TRUE]
\* text input labelled "Password hint", label before the input
PasswordHintInput ==
    [typeAttr |-> "text", name |-> <<>>, id |-> <<>>, cls |-> <<>>,
     placeholder |-> <<>>, aria |-> <<>>, autocomplete |-> <<>>,
     lbl |-> <<"P", "a", "s", "s", "w", "o", "r", "d", " ", "h", "i", "n", "t">>, lblAfter |-> FALSE, visible |-> TRUE]
\* <input autocomplete="one-time-code" placeholder="Enter code">
CodeInput ==
    [typeAttr |-> "", name |-> <<>>, id |-> <<>>, cls |-> <<>>,
     placeholder |-> <<"E", "n", "t", "e", "r", " ", "c", "o", "d", "e">>, aria |-> <<>>, autocomplete |-> <<"o", "n", "e", "-", "t", "i", "m", "e", "-", "c", "o", "d", "e">>,
     lbl |-> <<>>, lblAfter |-> FALSE, visible |-> TRUE]

\* elements with every combination of the attributes the scorer reads
ScorerElems ==
    { [typeAttr |-> t, name |-> n, id |-> <<>>, cls |-> <<>>, placeholder |-> p,
       aria |-> <<>>, autocomplete |-> a, lbl |-> l, lblAfter |-> FALSE, visible |-> v] :
        t \in {"", "password", "email"},
        n \in {<<>>, <<"u", "s", "e", "r", "n", "a", "m", "e">>},
        p \in {<<>>, <<"E", "n", "t", "e", "r", " ", "v", "a", "l", "u", "e">>},
        a \in {<<>>, <<"c", "u", "r", "r", "e", "n", "t", "-", "p", "a", "s", "s", "w", "o", "r", "d">>, <<"o", "n", "e", "-", "t", "i", "m", "e", "-", "c", "o", "d", "e">>},
        l \in {<<>>, <<"U", "s", "e", "r", "n", "a", "m", "e">>, <<"P", "a", "s", "s", "w", "o", "r", "d">>},
        v \in BOOLEAN }

\* hintText values: none, /username/i, /password/i
ScorerHints == {<<>>, <<"/", "u", "s", "e", "r", "n", "a", "m", "e", "/", "i">>, <<"/", "p", "a", "s", "s", "w", "o", "r", "d", "/", "i">>}

\* documents of the main frame: nothing, or any element alone or before another
ScorerMainDocs ==
    {<<>>} \cup {<<e>> \o rest : e \in ScorerElems,
                               rest \in {<<>>, <<PlainInput>>, <<PasswordInput>>}}
           \cup {<<e, e>> : e \in ScorerElems}
\* documents of a child frame
ChildDocs == {<<>>, <<NamedUserInput>>}

FrameNumbers == 0..NumChildFrames

FfIdle ==
    /\ ffPc = "idle" /\ ffDocs = [f \in FrameNumbers |-> <<>>]
    /\ ffSemantic = "none" /\ ffHint = <<>> /\ ffEvalFail = 0 /\ ffResult = FfNone

FfStart ==
    /\ ffPc = "call"
    /\ \E main \in ScorerMainDocs, child \in ChildDocs :
         ffDocs = [f \in FrameNumbers |-> IF f = 0 THEN main ELSE child]
    /\ ffSemantic \in Semantics
    /\ ffHint \in ScorerHints
    /\ ffEvalFail \in 0..2
    /\ ffResult = FfNone

\* one call of findFieldLocator(page, semantic, hintText)
FfCall ==
    /\ UNCHANGED ffOthers
    /\ ffPc = "call"
    /\ ffResult' = findFieldLocator(Frames, ffDocs, ffSemantic, ffHint, ffEvalFail)
    /\ ffPc' = "done"
    /\ UNCHANGED <<ffDocs, ffSemantic, ffHint, ffEvalFail>>

FfNext == FfCall

(***************************************************************************)
(* Hints and locator queries over a document                               *)
(***************************************************************************)
\* a fieldHint: a RegExp with the i flag (source src, alternatives rx) or a string
HintUsernameRx == [isRegex |-> TRUE, src |-> <<"u", "s", "e", "r", "n", "a", "m", "e">>, rx |-> {<<<<"u", "s", "e", "r", "n", "a", "m", "e">>>>}]
HintPasswordRx == [isRegex |-> TRUE, src |-> <<"p", "a", "s", "s", "w", "o", "r", "d">>, rx |-> {<<<<"p", "a", "s", "s", "w", "o", "r", "d">>>>}]
HintCodeRx == [isRegex |-> TRUE, src |-> <<"c", "o", "d", "e">>, rx |-> {<<<<"c", "o", "d", "e">>>>}]
HintPasswordStr == [isRegex |-> FALSE, src |-> <<"P", "a", "s", "s", "w", "o", "r", "d">>, rx |-> {}]
\* 'Login code': names a one-time code with a username word in it
HintLoginCodeStr == [isRegex |-> FALSE, src |-> <<"L", "o", "g", "i", "n", " ", "c", "o", "d", "e">>, rx |-> {}]
\* 'Passcode': a password word and a code word
HintPasscodeStr == [isRegex |-> FALSE, src |-> <<"P", "a", "s", "s", "c", "o", "d", "e">>, rx |-> {}]
\* 'Phone': none of the role words
HintPhoneStr == [isRegex |-> FALSE, src |-> <<"P", "h", "o", "n", "e">>, rx |-> {}]
Hints ==
    {HintUsernameRx, HintPasswordRx, HintCodeRx, HintPasswordStr,
     HintLoginCodeStr, HintPasscodeStr, HintPhoneStr}

\* fieldHint.toString()
HintToString(h) == IF h.isRegex THEN <<"/">> \o h.src \o <<"/", "i">> ELSE h.src
\* whether a text matches the hint as the getBy* locators match it: a RegExp
\* by test(), a string as a case-insensitive substring
HintMatches(h, text) ==
    IF h.isRegex THEN RegexTest(h.rx, text)
    ELSE text # <<>> /\ Includes(ToLower(text), ToLower(h.src))

\* const isPassword = /password|pass|pwd/i.test(hintStr), and so on
IsPasswordHint(h) == RegexTest({<<<<"p", "a", "s", "s", "w", "o", "r", "d">>>>, <<<<"p", "a", "s", "s">>>>, <<<<"p", "w", "d">>>>}, HintToString(h))
IsUsernameHint(h) ==
    RegexTest({<<<<"u", "s", "e", "r", "n", "a", "m", "e">>>>, <<<<"u", "s", "e", "r">>>>, <<<<"l", "o", "g", "i", "n">>>>, <<<<"e", "m", "a", "i", "l">>>>, <<<<"o", "n", "l", "i", "n", "e">>, <<"i", "d">>>>},
              HintToString(h))
IsCodeHint(h) == RegexTest({<<<<"c", "o", "d", "e">>>>, <<<<"o", "t", "p">>>>, <<<<"v", "e", "r", "i", "f", "i", "c", "a", "t", "i", "o", "n">>>>}, HintToString(h))

\* every hint treated as generic text
SemanticAlwaysText(h) == "text"
\* the semantic autoFill hands to the scorer
SemanticOf(h) ==
    IF IsPasswordHint(h) THEN "password"
    ELSE IF IsCodeHint(h) THEN "code"
    ELSE IF IsUsernameHint(h) THEN "username"
    ELSE "text"

\* elements with the textbox role: text-like inputs that are not hidden
IsTextbox(el) == ElType(el) \in {"text", "email", "search", "tel", "url"} /\ el.visible
\* accessible name of an input
AccName(el) ==
    IF el.aria # <<>> THEN el.aria ELSE IF el.lbl # <<>> THEN el.lbl ELSE el.placeholder

\* whether element el is matched by the locator named strat, for hint h
Matches(strat, el, h) ==
    CASE strat = "label" -> HintMatches(h, el.lbl) \/ HintMatches(h, el.aria)
      [] strat = "placeholder" -> HintMatches(h, el.placeholder)
      [] strat = "role=textbox" -> IsTextbox(el) /\ HintMatches(h, AccName(el))
      [] strat = "type=password" -> el.typeAttr = "password"
      [] strat = "name*=pass" ->
            Includes(el.name, <<"p", "a", "s", "s", "w", "o", "r", "d">>) \/ Includes(el.name, <<"p", "a", "s", "s">>)
            \/ Includes(el.name, <<"p", "w", "d">>)
      [] strat = "type=text" ->
            el.typeAttr = "text" /\ ~Includes(el.name, <<"p", "a", "s", "s", "w", "o", "r", "d">>)
      [] strat = "autocomplete*=one-time-code" ->
            Includes(ToLower(el.autocomplete), <<"o", "n", "e", "-", "t", "i", "m", "e", "-", "c", "o", "d", "e">>)
      [] strat = "placeholder=code" ->
            RegexTest({<<<<"c", "o", "d", "e">>>>, <<<<"v", "e", "r", "i", "f", "i", "c", "a", "t", "i", "o", "n">>>>, <<<<"o", "t", "p">>>>}, el.placeholder)
      [] strat = "name*=code" ->
            Includes(ToLower(el.name), <<"c", "o", "d", "e">>) \/ Includes(ToLower(el.name), <<"o", "t", "p">>)
            \/ Includes(ToLower(el.name), <<"v", "e", "r", "i", "f", "i", "c", "a", "t", "i", "o", "n">>)
      [] strat = "name" ->
            IF h.isRegex THEN el.name # <<>> ELSE el.name # <<>> /\ el.name = h.src
      [] OTHER -> FALSE

\* 0-based index of the first element a set of indices holds, -1 for none
FirstOf(S) == IF S = {} THEN -1 ELSE CHOOSE i \in S : \A j \in S : i <= j
\* loc.first() of the locator named strat on a document
FirstMatch(strat, doc, h) == FirstOf({i \in 0..(Len(doc) - 1) : Matches(strat, doc[i + 1], h)})

\* the strategies the enhanced autoFill pushes after a scorer miss, by role
FallbackPassword == <<"type=password", "label", "placeholder", "name*=pass">>
FallbackUsername == <<"label", "placeholder", "role=textbox", "type=text">>
FallbackCode == <<"autocomplete*=one-time-code", "placeholder=code", "name*=code">>
FallbackText == <<"label", "placeholder", "role=textbox">>
\* the older list with the name attribute tried first
OlderStrategiesNameFirst == <<"name", "label", "placeholder", "role=textbox">>
\* the strategy list of the older autoFill
OlderStrategies == <<"label", "placeholder", "role=textbox", "name">>

\* the if / else-if chain choosing the fallback list
EnhancedFallback(h) ==
    IF IsPasswordHint(h) THEN FallbackPassword
    ELSE IF IsUsernameHint(h) THEN FallbackUsername
    ELSE IF IsCodeHint(h) THEN FallbackCode
    ELSE FallbackText

AfVariants == {"enhanced", "older", "backup"}
AfStrategies(v, h) == IF v = "enhanced" THEN EnhancedFallback(h) ELSE OlderStrategies

\* text-proximity heuristic: the first label matching the hint, then the first
\* input following it in document order (-1 for none)
ProximityTarget(doc, h) ==
    LET i == FirstOf({k \in 0..(Len(doc) - 1) : HintMatches(h, doc[k + 1].lbl)})
    IN IF i = -1 THEN -1
       ELSE IF ~doc[i + 1].lblAfter THEN i
       ELSE IF i + 1 < Len(doc) THEN i + 1 ELSE -1

\* page.getByRole('textbox').nth(n): 0-based index of the n-th textbox, -1 for none
RECURSIVE NthTextbox(_, _, _)
NthTextbox(doc, n, from) ==
    IF from >= Len(doc) THEN -1
    ELSE IF IsTextbox(doc[from + 1])
    THEN (IF n = 0 THEN from ELSE NthTextbox(doc, n - 1, from + 1))
    ELSE NthTextbox(doc, n, from + 1)

\* the positional fallback wants the first textbox for this hint
WantsFirstBox(h) ==
    IF h.isRegex THEN RegexTest(h.rx, <<"u", "s", "e", "r", "n", "a", "m", "e">>) ELSE RegexTest({<<<<"u", "s", "e", "r", "n", "a", "m", "e">>>>}, h.src)
\* the positional fallback wants the second textbox for this hint
WantsSecondBox(h) ==
    IF h.isRegex THEN RegexTest(h.rx, <<"p", "a", "s", "s", "w", "o", "r", "d">>) ELSE RegexTest({<<<<"p", "a", "s", "s", "w", "o", "r", "d">>>>}, h.src)

(***************************************************************************)
(* autoFill                                                                *)
(***************************************************************************)
\* elements of the documents autoFill runs on
FillElems ==
    {PlainInput, UsernameInput, PasswordInput, HiddenPasswordInput,
     RevealedPasswordInput, PasswordHintInput}
RECURSIVE DocsUpTo(_, _)
\* sequences of at most n elements of a set
DocsUpTo(n, elems) ==
    IF n = 0 THEN {<<>>}
    ELSE LET shorter == DocsUpTo(n - 1, elems)
         IN shorter \cup {<<e>> \o d : e \in elems, d \in {s \in shorter : Len(s) = n - 1}}
FillMainDocs == DocsUpTo(MaxElems, FillElems)

\* one modification of an element's value: op is "clear" for fill(''), "type"
\* for a completed type(value), "partial" for a type(value) rejected part-way,
\* "fill" for fill(value), "script" for element.value = val in a page script
\* (idx -1: an element that is no input of the document model)
Wr(f, i, op) == [frame |-> f, idx |-> i, op |-> op]
\* outcomes of an actionability-checked interaction: a hidden element times out
ActOutcomes(el) == IF el.visible THEN BOOLEAN ELSE {FALSE}

\* smartFind(hint, 'input') strategies 1-2: some element's textContent holds the hint
TextHolds(doc, hintStr) ==
    \E i \in 1..Len(doc) : Includes(ToLower(doc[i].lbl), ToLower(hintStr))
\* autoFixElement(hint) strategy 4 on the inputs: [id*=hint], [class*=hint], [name*=hint]
AutoFixInput(doc, hintStr) ==
    LET byId == FirstOf({i \in 0..(Len(doc) - 1) : Includes(doc[i + 1].id, hintStr)})
        byCls == FirstOf({i \in 0..(Len(doc) - 1) : Includes(doc[i + 1].cls, hintStr)})
        byName == FirstOf({i \in 0..(Len(doc) - 1) : Includes(doc[i + 1].name, hintStr)})
    IN IF TextHolds(doc, hintStr) THEN -1
       ELSE IF byId >= 0 THEN byId ELSE IF byCls >= 0 THEN byCls ELSE byName

PositionalTarget(doc, h) ==
    IF WantsFirstBox(h) /\ NthTextbox(doc, 0, 0) >= 0 THEN NthTextbox(doc, 0, 0)
    ELSE IF WantsSecondBox(h) /\ NthTextbox(doc, 1, 0) >= 0 THEN NthTextbox(doc, 1, 0)
    ELSE -1

AfIdle ==
    /\ afVariant = "none" /\ afPc = "idle" /\ afDocs = [f \in FrameNumbers |-> <<>>]
    /\ afHint = HintUsernameRx /\ afK = 1 /\ afBest = FfNone
    /\ afWrites = <<>> /\ afLog = <<>> /\ afError = <<>> /\ afFailed = FALSE

AfStart ==
    /\ afVariant \in AfVariants
    /\ afPc = IF afVariant = "enhanced" THEN "ready" ELSE "list"
    /\ \E main \in FillMainDocs, child \in ChildDocs :
         afDocs = [f \in FrameNumbers |-> IF f = 0 THEN main ELSE child]
    /\ afHint \in Hints
    /\ afK = 1 /\ afBest = FfNone
    /\ afWrites = <<>> /\ afLog = <<>> /\ afError = <<>> /\ afFailed = FALSE

\* a scorer path without its try/catch: a failure goes straight to the error
ScorerFailurePropagates == "raise"
\* catch { /* fallback to strategies below */ }: where a failure on the scorer
\* path sends control
AfterScorerFailure == "list"
\* the stage after the strategy list
AfterList == IF afVariant = "enhanced" THEN "raise" ELSE "proximity"
\* the stage after the positional fallback
AfterPositional == IF afVariant = "older" THEN "smartFind" ELSE "raise"

\* await ensureDomReady(page): it returns, or its poll sleep rejects and the
\* catch of the scorer path sends control to the strategy list
AfReady ==
    /\ UNCHANGED afOthers
    /\ afPc = "ready"
    /\ \E ok \in BOOLEAN :
         /\ afPc' = IF ok THEN "score" ELSE AfterScorerFailure
         /\ afFailed' = (afFailed \/ ~ok)
    /\ afLog' = Append(afLog, "ready")
    /\ UNCHANGED <<afVariant, afDocs, afHint, afK, afBest, afWrites, afError>>

\* const best = await findFieldLocator(page, semantic, hintStr), then the
\* swallowed scrollIntoViewIfNeeded
AfScore ==
    /\ UNCHANGED afOthers
    /\ afPc = "score"
    /\ \E evalFail \in 0..1 :
         LET r == findFieldLocator(Frames, afDocs, SemanticOf(afHint),
                                   HintToString(afHint), evalFail)
         IN /\ afBest' = r
            /\ afPc' = IF r.kind = "found" THEN "click"
                        ELSE IF r.kind = "threw" THEN AfterScorerFailure ELSE "list"
            /\ afFailed' = (afFailed \/ r.kind = "threw")
    /\ afLog' = Append(afLog, "scorer")
    /\ UNCHANGED <<afVariant, afDocs, afHint, afK, afWrites, afError>>

BestEl == afDocs[afBest.frame][afBest.idx + 1]

\* await best.click({ timeout: 10000 })
AfClick ==
    /\ UNCHANGED afOthers
    /\ afPc = "click"
    /\ \E ok \in ActOutcomes(BestEl) :
         /\ afPc' = IF ok THEN "clear" ELSE AfterScorerFailure
         /\ afFailed' = (afFailed \/ ~ok)
    /\ UNCHANGED <<afVariant, afDocs, afHint, afK, afBest, afWrites, afLog, afError>>

\* await best.fill('')
AfClear ==
    /\ UNCHANGED afOthers
    /\ afPc = "clear"
    /\ \E ok \in ActOutcomes(BestEl) :
         /\ afPc' = IF ok THEN "type" ELSE AfterScorerFailure
         /\ afWrites' = IF ok THEN Append(afWrites, Wr(afBest.frame, afBest.idx, "clear"))
                        ELSE afWrites
         /\ afFailed' = (afFailed \/ ~ok)
    /\ UNCHANGED <<afVariant, afDocs, afHint, afK, afBest, afLog, afError>>

\* await best.type(value, { delay: 30 }), then the two swallowed dispatchEvent
\* calls and the return
AfType ==
    /\ UNCHANGED afOthers
    /\ afPc = "type"
    /\ \E out \in {"typed", "partial", "failed"} :
         /\ afPc' = IF out = "typed" THEN "returned" ELSE AfterScorerFailure
         /\ afWrites' =
              IF out = "typed" THEN Append(afWrites, Wr(afBest.frame, afBest.idx, "type"))
              ELSE IF out = "partial"
              THEN Append(afWrites, Wr(afBest.frame, afBest.idx, "partial"))
              ELSE afWrites
         /\ afFailed' = (afFailed \/ out # "typed")
    /\ UNCHANGED <<afVariant, afDocs, afHint, afK, afBest, afLog, afError>>

\* one iteration of for (const loc of strategies): first.count(), first.fill(value)
AfList ==
    /\ UNCHANGED afOthers
    /\ afPc = "list"
    /\ LET strategies == AfStrategies(afVariant, afHint)
           m == FirstMatch(strategies[afK], afDocs[0], afHint)
           next == IF afK = Len(strategies) THEN AfterList ELSE "list"
       IN /\ afLog' = Append(afLog, strategies[afK])
          /\ afK' = afK + 1
          /\ IF m = -1
             THEN /\ afPc' = next
                  /\ UNCHANGED <<afWrites, afFailed>>
             ELSE \E ok \in ActOutcomes(afDocs[0][m + 1]) :
                    /\ afPc' = IF ok THEN "returned" ELSE next
                    /\ afWrites' = IF ok THEN Append(afWrites, Wr(0, m, "fill")) ELSE afWrites
                    /\ afFailed' = (afFailed \/ ~ok)
    /\ UNCHANGED <<afVariant, afDocs, afHint, afBest, afError>>

\* a stage that fills element t of the main document when t >= 0
AfFillStage(name, t, after) ==
    /\ afLog' = Append(afLog, name)
    /\ IF t = -1
       THEN /\ afPc' = after
            /\ UNCHANGED <<afWrites, afFailed>>
       ELSE \E ok \in ActOutcomes(afDocs[0][t + 1]) :
              /\ afPc' = IF ok THEN "returned" ELSE after
              /\ afWrites' = IF ok THEN Append(afWrites, Wr(0, t, "fill")) ELSE afWrites
              /\ afFailed' = (afFailed \/ ~ok)
    /\ UNCHANGED <<afVariant, afDocs, afHint, afK, afBest, afError>>

\* the text-proximity heuristic: getByText(fieldHint) and following::input[1]
AfProximity ==
    /\ UNCHANGED afOthers
    /\ afPc = "proximity"
    /\ AfFillStage("proximity", ProximityTarget(afDocs[0], afHint), "positional")

\* the positional fallback: first or second textbox
AfPositional ==
    /\ UNCHANGED afOthers
    /\ afPc = "positional"
    /\ AfFillStage("positional", PositionalTarget(afDocs[0], afHint), AfterPositional)

\* page.evaluate of smartFind(hint, 'input'): the found element, which need not
\* be an input, gets element.value = val; the page's content outside the inputs
\* decides the outcome unless a label already holds the hint text
AfSmartFind ==
    /\ UNCHANGED afOthers
    /\ afPc = "smartFind"
    /\ \E out \in (IF TextHolds(afDocs[0], HintToString(afHint))
                   THEN {"found"} ELSE {"found", "missing", "threw"}) :
         /\ afPc' = IF out = "found" THEN "returned" ELSE "autoFix"
         /\ afWrites' = IF out = "found" THEN Append(afWrites, Wr(0, -1, "script"))
                        ELSE afWrites
         /\ afFailed' = (afFailed \/ out = "threw")
    /\ afLog' = Append(afLog, "smartFind")
    /\ UNCHANGED <<afVariant, afDocs, afHint, afK, afBest, afError>>

\* page.evaluate of autoFixElement(hint): only an INPUT or TEXTAREA is written
AfAutoFix ==
    /\ UNCHANGED afOthers
    /\ afPc = "autoFix"
    /\ LET t == AutoFixInput(afDocs[0], HintToString(afHint))
       IN \E out \in (IF t >= 0 THEN {"input", "other", "threw"} ELSE {"other", "threw"}) :
            /\ afPc' = IF out = "input" THEN "returned" ELSE "raise"
            /\ afWrites' = IF out = "input" THEN Append(afWrites, Wr(0, t, "script"))
                           ELSE afWrites
            /\ afFailed' = (afFailed \/ out = "threw")
    /\ afLog' = Append(afLog, "autoFixElement")
    /\ UNCHANGED <<afVariant, afDocs, afHint, afK, afBest, afError>>

\* throw new Error(`... could not find input for ${fieldHint.toString()}...`)
AfRaise ==
    /\ UNCHANGED afOthers
    /\ afPc = "raise"
    /\ afPc' = "threw"
    /\ afError' = HintToString(afHint)
    /\ UNCHANGED <<afVariant, afDocs, afHint, afK, afBest, afWrites, afLog, afFailed>>

AfNext ==
    \/ AfReady \/ AfScore \/ AfClick \/ AfClear \/ AfType \/ AfList
    \/ AfProximity \/ AfPositional \/ AfSmartFind \/ AfAutoFix \/ AfRaise

(***************************************************************************)
(* autoClick                                                               *)
(***************************************************************************)
AcVariants == {"enhanced", "older", "backup"}
\* the locator list of the enhanced autoClick, in source order
ClickStrategies ==
    << "role=button", "role=link", "label", "text", "data-testid",
       "button:has-text", "a:has-text" >>

\* the queries whose results vary over the pages autoClick is run on
AcKeys == {<<f, s>> : f \in {0, NumChildFrames}, s \in {"role=button", "label", "text"}}
RECURSIVE AcPagesUpTo(_)
\* pages with at most n of those queries throwing (-1) or matching 1 or 2 elements
AcPagesUpTo(n) ==
    IF n = 0 THEN {ZeroPage}
    ELSE LET prev == AcPagesUpTo(n - 1)
         IN prev \cup {[p EXCEPT ![k] = o] : p \in prev, k \in AcKeys, o \in {-1, 1, 2}}
AcPages == AcPagesUpTo(2)

NoError == [kind |-> "none", hint |-> <<>>]
\* one interaction attempt: op is "click", "dispatch", "smartFind" or "autoFixElement"
Attempt(op, ci, strat, ok) == [op |-> op, ctx |-> ci, strat |-> strat, ok |-> ok]

AcIdle ==
    /\ acVariant = "none" /\ acPc = "idle" /\ acPage = ZeroPage /\ acHint = HintUsernameRx
    /\ acCtx = 1 /\ acK = 1 /\ acLoc = RlMiss(<<>>) /\ acLog = <<>> /\ acError = NoError

AcStart ==
    /\ acVariant \in AcVariants
    /\ acPc = IF acVariant = "enhanced" THEN "scan" ELSE "resolve"
    /\ acPage \in AcPages
    /\ acHint \in Hints
    /\ acCtx = 1 /\ acK = 1 /\ acLoc = RlMiss(<<>>) /\ acLog = <<>> /\ acError = NoError

\* one iteration of the inner loop of the enhanced autoClick: loc.count(), and
\* on a positive count loc.click({ timeout: 15000 }), which is strict: a
\* locator matching several elements rejects; anything thrown moves on to the
\* next strategy
AcTry ==
    /\ UNCHANGED acOthers
    /\ acPc = "scan"
    /\ LET contexts == getAllContexts(Frames)
           strat == ClickStrategies[acK]
           n == acPage[<<contexts[acCtx].frame, strat>>]
           lastK == acK = Len(ClickStrategies)
           nextPc == IF lastK /\ acCtx = Len(contexts) THEN "raise" ELSE "scan"
       IN /\ \E ok \in (IF n = 1 THEN BOOLEAN ELSE {FALSE}) :
               /\ acLog' = IF n > 0 THEN Append(acLog, Attempt("click", acCtx, strat, ok))
                           ELSE acLog
               /\ acPc' = IF n > 0 /\ ok THEN "returned" ELSE nextPc
          /\ acK' = IF lastK THEN 1 ELSE acK + 1
          /\ acCtx' = IF lastK THEN acCtx + 1 ELSE acCtx
    /\ UNCHANGED <<acVariant, acPage, acHint, acLoc, acError>>

\* the stage of the older autoClick after the locator stages
AfterLocator == IF acVariant = "older" THEN "smartFind" ELSE "raise"

\* const loc = await resolveLocator(page, hint)
AcResolve ==
    /\ UNCHANGED acOthers
    /\ acPc = "resolve"
    /\ \E scrollOk \in BOOLEAN :
         LET r == resolveLocator("backup", Frames, acPage, scrollOk)
         IN /\ acLoc' = r
            /\ acPc' = IF r.found THEN "click" ELSE AfterLocator
    /\ UNCHANGED <<acVariant, acPage, acHint, acCtx, acK, acLog, acError>>

\* await loc.click({ timeout: 15000 })
AcClick ==
    /\ UNCHANGED acOthers
    /\ acPc = "click"
    /\ \E ok \in BOOLEAN :
         /\ acLog' = Append(acLog, Attempt("click", acLoc.ctx, acLoc.strat, ok))
         /\ acPc' = IF ok THEN "returned" ELSE "dispatch"
    /\ UNCHANGED <<acVariant, acPage, acHint, acCtx, acK, acLoc, acError>>

\* await loc.dispatchEvent('click') after the rejected click: the older variant
\* catches its rejection, backup_context.ts lets it leave autoClick
AcDispatch ==
    /\ UNCHANGED acOthers
    /\ acPc = "dispatch"
    /\ \E ok \in BOOLEAN :
         /\ acLog' = Append(acLog, Attempt("dispatch", acLoc.ctx, acLoc.strat, ok))
         /\ acPc' = IF ok THEN "returned"
                    ELSE IF acVariant = "older" THEN "smartFind" ELSE "threw"
         /\ acError' = IF ~ok /\ acVariant = "backup"
                       THEN [kind |-> "dispatchEvent", hint |-> <<>>] ELSE acError
    /\ UNCHANGED <<acVariant, acPage, acHint, acCtx, acK, acLoc>>

\* a page.evaluate stage of the older autoClick: the page script clicks the
\* element it finds; the page's content decides the outcome
AcScriptStage(name, after) ==
    /\ \E out \in {"found", "missing", "threw"} :
         /\ acLog' = Append(acLog, Attempt(name, 1, "script", out = "found"))
         /\ acPc' = IF out = "found" THEN "returned" ELSE after
    /\ UNCHANGED <<acVariant, acPage, acHint, acCtx, acK, acLoc, acError>>

\* page.evaluate of smartFind(hint, 'button') and element.click()
AcSmartFind ==
    /\ UNCHANGED acOthers
    /\ acPc = "smartFind"
    /\ AcScriptStage("smartFind", "autoFix")

\* page.evaluate of autoFixElement(hint) and element.click()
AcAutoFix ==
    /\ UNCHANGED acOthers
    /\ acPc = "autoFix"
    /\ AcScriptStage("autoFixElement", "raise")

\* throw new Error(`... ${hint.toString()}...`)
AcRaise ==
    /\ UNCHANGED acOthers
    /\ acPc = "raise"
    /\ acPc' = "threw"
    /\ acError' = [kind |-> "autoClick", hint |-> HintToString(acHint)]
    /\ UNCHANGED <<acVariant, acPage, acHint, acCtx, acK, acLoc, acLog>>

AcNext ==
    \/ AcTry \/ AcResolve \/ AcClick \/ AcDispatch \/ AcSmartFind \/ AcAutoFix \/ AcRaise

(***************************************************************************)
(* suggestLocators                                                         *)
(***************************************************************************)
\* JSON.stringify of a hint that needs no escaping
JsonString(hint) == <<"\"">> \o hint \o <<"\"">>

\* the candidates of one context, in source order: the API kind, the query the
\* locator runs, the selector text of the suggestion and the reasons
SgCandidates(hint) ==
    << [api |-> "getByRole", query |-> "role=button",
        selector |-> <<"g", "e", "t", "B", "y", "R", "o", "l", "e", "(", "'", "b", "u", "t", "t", "o", "n", "'", ",", " ", "{", " ", "n", "a", "m", "e", ":", " ">> \o JsonString(hint) \o <<" ", "}", ")">>,
        reasons |-> <<<<"r", "o", "l", "e", " ", "b", "u", "t", "t", "o", "n", " ", "n", "a", "m", "e", " ", "m", "a", "t", "c", "h">>>>],
       [api |-> "getByRole", query |-> "role=link",
        selector |-> <<"g", "e", "t", "B", "y", "R", "o", "l", "e", "(", "'", "l", "i", "n", "k", "'", ",", " ", "{", " ", "n", "a", "m", "e", ":", " ">> \o JsonString(hint) \o <<" ", "}", ")">>,
        reasons |-> <<<<"r", "o", "l", "e", " ", "l", "i", "n", "k", " ", "n", "a", "m", "e", " ", "m", "a", "t", "c", "h">>>>],
       [api |-> "getByLabel", query |-> "label",
        selector |-> <<"g", "e", "t", "B", "y", "L", "a", "b", "e", "l", "(">> \o JsonString(hint) \o <<")">>,
        reasons |-> <<<<"a", "s", "s", "o", "c", "i", "a", "t", "e", "d", " ", "l", "a", "b", "e", "l", " ", "m", "a", "t", "c", "h">>>>],
       [api |-> "getByText", query |-> "text",
        selector |-> <<"g", "e", "t", "B", "y", "T", "e", "x", "t", "(">> \o JsonString(hint) \o <<")">>,
        reasons |-> <<<<"t", "e", "x", "t", " ", "n", "o", "d", "e", " ", "m", "a", "t", "c", "h">>>>],
       [api |-> "locator", query |-> "data-testid*=",
        selector |-> <<"[", "d", "a", "t", "a", "-", "t", "e", "s", "t", "i", "d", "*", "=">> \o hint \o <<" ", "i", "]">>,
        reasons |-> <<<<"d", "a", "t", "a", "-", "t", "e", "s", "t", "i", "d", " ", "c", "o", "n", "t", "a", "i", "n", "s">>>>],
       [api |-> "locator", query |-> "button:has-text",
        selector |-> <<"b", "u", "t", "t", "o", "n", ":", "h", "a", "s", "-", "t", "e", "x", "t", "(">> \o JsonString(hint) \o <<")">>,
        reasons |-> <<<<"b", "u", "t", "t", "o", "n", " ", "h", "a", "s", "-", "t", "e", "x", "t">>>>],
       [api |-> "locator", query |-> "aria-label*=",
        selector |-> <<"[", "a", "r", "i", "a", "-", "l", "a", "b", "e", "l", "*", "=">> \o hint \o <<" ", "i", "]">>,
        reasons |-> <<<<"a", "r", "i", "a", "-", "l", "a", "b", "e", "l", " ", "c", "o", "n", "t", "a", "i", "n", "s">>>>],
       [api |-> "locator", query |-> "a:has-text",
        selector |-> <<"a", ":", "h", "a", "s", "-", "t", "e", "x", "t", "(">> \o JsonString(hint) \o <<")">>,
        reasons |-> <<<<"l", "i", "n", "k", " ", "h", "a", "s", "-", "t", "e", "x", "t">>>>] >>
NumCandidates == 8

Max(a, b) == IF a >= b THEN a ELSE b
Min(a, b) == IF a <= b THEN a ELSE b

\* Math.max(0, Math.min(100, s)) left out
NoClamp(s) == s
\* Math.max(0, Math.min(100, s))
Clamp(s) == Max(0, Min(100, s))

\* API-kind points that do not depend on the kind
ApiPointsFlat(api) == 10
\* the points of the API kind
ApiPoints(api) ==
    CASE api = "getByRole" -> 35
      [] api = "getByLabel" -> 30
      [] api = "getByText" -> 20
      [] api = "locator" -> 10
      [] OTHER -> 0

\* s of the inner scoreFor of suggestLocators, before the clamp
suggestPoints(candidate) ==
    LET apiPoints == ApiPoints(candidate.api)
        uniquePoints == IF candidate.unique THEN 20 ELSE -10
        visiblePoints == IF candidate.visible THEN 15 ELSE -15
        ariaPoints == IF \E i \in 1..Len(candidate.reasons) :
                            RegexTest({<<<<"a", "r", "i", "a">>>>, <<<<"r", "o", "l", "e">>>>}, candidate.reasons[i])
                      THEN 10 ELSE 0
        testidPoints == IF \E i \in 1..Len(candidate.reasons) :
                              RegexTest({<<<<"d", "a", "t", "a", "-", "t", "e", "s", "t", "i", "d">>>>}, candidate.reasons[i])
                        THEN 10 ELSE 0
    IN apiPoints + uniquePoints + visiblePoints + ariaPoints + testidPoints

\* the inner scoreFor of suggestLocators
suggestScoreFor(candidate) == Clamp(suggestPoints(candidate))

\* count > 0 && count <= 3 with the upper limit left out
SgAcceptsAny(count) == count > 0
\* count > 0 && count <= 3
SgAccepts(count) == count > 0 /\ count <= 3

\* the body of `for (const c of candidates)` for candidate c of a context: the
\* suggestions it pushes; count is negative when loc.count() throws, visible
\* is FALSE also when isVisible rejects
SgCandidate(c, count, visible, frameUrl) ==
    IF SgAccepts(count)
    THEN LET item == [selector |-> c.selector, api |-> c.api, confidence |-> 0,
                      unique |-> (count = 1), visible |-> visible,
                      reasons |-> c.reasons, frameUrl |-> frameUrl]
         IN <<[item EXCEPT !.confidence = suggestScoreFor(item)]>>
    ELSE <<>>

\* frameLocators: the page with page.url(), then every frame of page.frames()
\* whose url() does not throw; frame 0 is the main frame, whose URL is the page's
SgFrameLocators(frames, urls, urlFails) ==
    <<[frame |-> 0, frameUrl |-> urls[0]]>>
    \o SelectSeq([i \in 1..Len(frames) |-> [frame |-> frames[i], frameUrl |-> urls[frames[i]]]],
                 LAMBDA fl : fl.frame \notin urlFails)

\* the key of the deduplication: selector, two at signs, frameUrl
SgKey(s) == s.selector \o <<"@", "@">> \o s.frameUrl

RECURSIVE SgDedupe(_, _)
\* suggestions.filter(...) with the seen set: the first of each key is kept
SgDedupe(list, seen) ==
    IF list = <<>> THEN <<>>
    ELSE IF SgKey(Head(list)) \in seen THEN SgDedupe(Tail(list), seen)
    ELSE <<Head(list)>> \o SgDedupe(Tail(list), seen \cup {SgKey(Head(list))})

\* the deduplication left out
SgKeepAll(list) == list
\* the deduplication of the whole list
SgUnique(list) == SgDedupe(list, {})

RECURSIVE SgInsert(_, _)
\* s put into a list sorted by confidence, after the entries not below it
SgInsert(sorted, s) ==
    IF sorted = <<>> THEN <<s>>
    ELSE IF Head(sorted).confidence >= s.confidence
    THEN <<Head(sorted)>> \o SgInsert(Tail(sorted), s)
    ELSE <<s>> \o sorted

RECURSIVE SgSortFrom(_, _)
SgSortFrom(list, sorted) ==
    IF list = <<>> THEN sorted ELSE SgSortFrom(Tail(list), SgInsert(sorted, Head(list)))

\* the sort left out
SgUnsorted(list) == list
\* .sort((a, b) => b.confidence - a.confidence), a stable sort
SgSort(list) == SgSortFrom(list, <<>>)

\* the lines after the loops: deduplicate, then sort
SgRank(suggestions) == SgSort(SgUnique(suggestions))

RECURSIVE SgScan(_, _, _, _, _, _)
\* the two nested loops from position pos on, positions counting the
\* candidates of all contexts from 0
SgScan(contexts, q, vis, hint, pos, suggestions) ==
    IF pos >= Len(contexts) * NumCandidates THEN suggestions
    ELSE LET ctx == contexts[(pos \div NumCandidates) + 1]
             ci == (pos % NumCandidates) + 1
             c == SgCandidates(hint)[ci]
             k == <<ctx.frame, c.query>>
         IN SgScan(contexts, q, vis, hint, pos + 1,
                   suggestions \o SgCandidate(c, q[k], vis[k], ctx.frameUrl))

\* one call of suggestLocators(page, hint) on a page that does not change
suggestLocators(frames, urls, urlFails, q, vis, hint) ==
    SgRank(SgScan(SgFrameLocators(frames, urls, urlFails), q, vis, hint, 0, <<>>))

SgQueries == {SgCandidates(<<>>)[i].query : i \in 1..NumCandidates}
SgQueryKeys == {<<f, s>> : f \in FrameNumbers, s \in SgQueries}
SgZeroPage == [k \in SgQueryKeys |-> 0]
\* the pages suggestLocators is run on: match count of every query, negative
\* for a count() that throws
SgPages ==
    { SgZeroPage,
      [SgZeroPage EXCEPT ![<<0, "role=button">>] = 1],
      [SgZeroPage EXCEPT ![<<0, "role=button">>] = 3],
      [SgZeroPage EXCEPT ![<<0, "role=button">>] = 4],
      [SgZeroPage EXCEPT ![<<0, "role=button">>] = -1],
      [SgZeroPage EXCEPT ![<<NumChildFrames, "text">>] = 2],
      [SgZeroPage EXCEPT ![<<0, "role=button">>] = 1, ![<<NumChildFrames, "role=button">>] = 1],
      [SgZeroPage EXCEPT ![<<0, "text">>] = 1, ![<<0, "role=button">>] = 2],
      [SgZeroPage EXCEPT ![<<0, "data-testid*=">>] = 1, ![<<0, "button:has-text">>] = 3],
      [SgZeroPage EXCEPT ![<<0, "label">>] = 1, ![<<NumChildFrames, "label">>] = 4,
                         ![<<NumChildFrames, "a:has-text">>] = -1],
      [k \in SgQueryKeys |-> IF k[1] = 0 THEN 1 ELSE 0],
      [k \in SgQueryKeys |-> IF k[1] = 0 THEN 2 ELSE 0] }
\* what first.isVisible() answers for the first match of every query
SgVisibilities ==
    { [k \in SgQueryKeys |-> TRUE], [k \in SgQueryKeys |-> FALSE],
      [k \in SgQueryKeys |-> k[1] = 0] }
PageUrl == <<"h", "t", "t", "p", "s", ":", "/", "/", "a", "p", "p", "/", "l", "o", "g", "i", "n">>
BlankUrl == <<"a", "b", "o", "u", "t", ":", "b", "l", "a", "n", "k">>
\* the URL of every frame; the main frame has the URL of the page
SgUrlMaps == {u \in [FrameNumbers -> {PageUrl, BlankUrl}] : u[0] = PageUrl}
SgHints == {<<"S", "u", "b", "m", "i", "t">>, <<"L", "o", "g">>}
\* the two invocations of suggestLocators that may overlap
SgCalls == {1, 2}

\* the page after loc.count(), first.isVisible() or url() clicked the match away
PageAfterReadConsumed(q, k) == [q EXCEPT ![k] = 0]
\* the page after loc.count(), first.isVisible() and url(): they only read
PageAfterRead(q, k) == q

SgIdle ==
    /\ sgPc = [i \in SgCalls |-> "idle"] /\ sgPage = SgZeroPage
    /\ sgVis = [k \in SgQueryKeys |-> FALSE] /\ sgUrls = [f \in FrameNumbers |-> PageUrl]
    /\ sgUrlFails = {} /\ sgHint = <<>>
    /\ sgPos = [i \in SgCalls |-> 0] /\ sgOut = [i \in SgCalls |-> <<>>]
    /\ sgRet = [i \in SgCalls |-> <<>>]

SgStart ==
    /\ sgPc = [i \in SgCalls |-> "scan"]
    /\ sgPage \in SgPages
    /\ sgVis \in SgVisibilities
    /\ sgUrls \in SgUrlMaps
    /\ sgUrlFails \in {{}, {NumChildFrames}}
    /\ sgHint \in SgHints
    /\ sgPos = [i \in SgCalls |-> 0] /\ sgOut = [i \in SgCalls |-> <<>>]
    /\ sgRet = [i \in SgCalls |-> <<>>]

SgContexts == SgFrameLocators(Frames, sgUrls, sgUrlFails)

\* one iteration of `for (const c of candidates)` in invocation i
SgStep(i) ==
    /\ UNCHANGED sgOthers
    /\ sgPc[i] = "scan"
    /\ sgPos[i] < Len(SgContexts) * NumCandidates
    /\ LET ctx == SgContexts[(sgPos[i] \div NumCandidates) + 1]
           c == SgCandidates(sgHint)[(sgPos[i] % NumCandidates) + 1]
           k == <<ctx.frame, c.query>>
       IN /\ sgOut' = [sgOut EXCEPT ![i] =
                        sgOut[i] \o SgCandidate(c, sgPage[k], sgVis[k], ctx.frameUrl)]
          /\ sgPage' = PageAfterRead(sgPage, k)
    /\ sgPos' = [sgPos EXCEPT ![i] = sgPos[i] + 1]
    /\ UNCHANGED <<sgPc, sgVis, sgUrls, sgUrlFails, sgHint, sgRet>>

\* the lines after the loops in invocation i: deduplicate, sort, return
SgReturn(i) ==
    /\ UNCHANGED sgOthers
    /\ sgPc[i] = "scan"
    /\ sgPos[i] = Len(SgContexts) * NumCandidates
    /\ sgRet' = [sgRet EXCEPT ![i] = SgRank(sgOut[i])]
    /\ sgPc' = [sgPc EXCEPT ![i] = "done"]
    /\ UNCHANGED <<sgPage, sgVis, sgUrls, sgUrlFails, sgHint, sgPos, sgOut>>

SgNext == \E i \in SgCalls : SgStep(i) \/ SgReturn(i)

(***************************************************************************)
(* suggestDummyReplacements                                                *)
(***************************************************************************)
Digits == {"0", "1", "2", "3", "4", "5", "6", "7", "8", "9"}
IsAlnum(c) ==
    \/ \E i \in 1..Len(UpperChars) : UpperChars[i] = c \/ LowerChars[i] = c
    \/ c \in Digits
\* \w
IsWordChar(c) == IsAlnum(c) \/ c = "_"

RECURSIVE WordEnd(_, _)
\* index of the last character of the run of \w characters that starts at i
WordEnd(text, i) ==
    IF i < Len(text) /\ IsWordChar(text[i + 1]) THEN WordEnd(text, i + 1) ELSE i

RECURSIVE PrefixWordMatches(_, _, _)
\* testCode.match(/<prefix>\w+/g) from index i on: the matches, left to right
PrefixWordMatches(text, prefix, i) ==
    IF i + Len(prefix) > Len(text) THEN <<>>
    ELSE IF SubSeq(text, i, i + Len(prefix) - 1) = prefix
            /\ IsWordChar(text[i + Len(prefix)])
    THEN LET j == WordEnd(text, i + Len(prefix))
         IN <<SubSeq(text, i, j)>> \o PrefixWordMatches(text, prefix, j + 1)
    ELSE PrefixWordMatches(text, prefix, i + 1)

\* the literal openings of the three quoted dummy patterns
QuotedPatternOpenings ==
    {<<"[", "d", "a", "t", "a", "-", "t", "e", "s", "t", "i", "d", "=", "\"">>, <<"g", "e", "t", "B", "y", "T", "e", "x", "t", "(", "\"">>, <<"g", "e", "t", "B", "y", "R", "o", "l", "e", "(", "\"", "b", "u", "t", "t", "o", "n", "\"", ",", " ", "{", " ", "n", "a", "m", "e", ":", " ", "\"">>}

\* the matches of the dummyPatterns in pattern order; the three quoted
\* patterns match nothing in a text that holds none of their openings
DummyMatches(text) ==
    PrefixWordMatches(text, <<"p", "l", "a", "c", "e", "h", "o", "l", "d", "e", "r", "_">>, 1)
    \o PrefixWordMatches(text, <<"d", "u", "m", "m", "y", "_">>, 1)
    \o PrefixWordMatches(text, <<"t", "e", "s", "t", "_">>, 1)

RECURSIVE StripLeading(_)
StripLeading(s) ==
    IF s # <<>> /\ ~IsAlnum(Head(s)) THEN StripLeading(Tail(s)) ELSE s
RECURSIVE StripTrailing(_)
StripTrailing(s) ==
    IF s # <<>> /\ ~IsAlnum(s[Len(s)]) THEN StripTrailing(SubSeq(s, 1, Len(s) - 1)) ELSE s
\* m.replace(/^[^A-Za-z0-9]*|[^A-Za-z0-9]*$/g, '')
StripEnds(s) == StripTrailing(StripLeading(s))

DummyWords == {<<"p", "l", "a", "c", "e", "h", "o", "l", "d", "e", "r">>, <<"d", "u", "m", "m", "y">>, <<"t", "e", "s", "t">>}
RECURSIVE RemoveDummyWords(_)
\* s.replace(/(placeholder|dummy|test)/gi, '')
RemoveDummyWords(s) ==
    IF s = <<>> THEN <<>>
    ELSE LET hits == {w \in DummyWords :
                        Len(w) <= Len(s) /\ ToLower(SubSeq(s, 1, Len(w))) = w}
         IN IF hits # {}
            THEN LET w == CHOOSE w \in hits : TRUE
                 IN RemoveDummyWords(SubSeq(s, Len(w) + 1, Len(s)))
            ELSE <<Head(s)>> \o RemoveDummyWords(Tail(s))

\* const hint = m.replace(...).replace(...)
HintOfDummy(m) == RemoveDummyWords(StripEnds(m))

\* new RegExp(hint, 'i').test(text) for a hint of \w characters
HintReTest(hint, text) == Includes(ToLower(text), ToLower(hint))

\* accessible name of a button or link: aria-label, else its text
NodeName(n) == IF n.aria # <<>> THEN n.aria ELSE n.text
\* whether node n is matched by the query of a candidate
NodeMatches(query, n, hint) ==
    CASE query = "role=button" -> n.tag = "button" /\ n.visible /\ HintReTest(hint, NodeName(n))
      [] query = "role=link" -> n.tag = "a" /\ n.visible /\ HintReTest(hint, NodeName(n))
      [] query = "label" -> n.aria # <<>> /\ HintReTest(hint, n.aria)
      [] query = "text" -> HintReTest(hint, n.text)
      [] query = "data-testid*=" -> n.testid # <<>> /\ HintReTest(hint, n.testid)
      [] query = "button:has-text" -> n.tag = "button" /\ HintReTest(hint, n.text)
      [] query = "aria-label*=" -> n.aria # <<>> /\ HintReTest(hint, n.aria)
      [] query = "a:has-text" -> n.tag = "a" /\ HintReTest(hint, n.text)
      [] OTHER -> FALSE

NodeHits(nodes, query, hint) == {i \in 1..Len(nodes) : NodeMatches(query, nodes[i], hint)}
\* loc.count() of every query of every frame for a page of nodes
CountsOf(pages, hint) ==
    [k \in SgQueryKeys |-> Cardinality(NodeHits(pages[k[1]], k[2], hint))]
\* first.isVisible() of every query of every frame
VisibleOf(pages, hint) ==
    [k \in SgQueryKeys |->
        LET hits == NodeHits(pages[k[1]], k[2], hint)
        IN hits # {} /\ pages[k[1]][CHOOSE i \in hits : \A j \in hits : i <= j].visible]

\* <button>Submit</button>
SubmitButton == [tag |-> "button", text |-> <<"S", "u", "b", "m", "i", "t">>, aria |-> <<>>, testid |-> <<>>, visible |-> TRUE]
\* <button>_submitButton</button>
MarkerButton == [tag |-> "button", text |-> <<"_", "s", "u", "b", "m", "i", "t", "B", "u", "t", "t", "o", "n">>, aria |-> <<>>, testid |-> <<>>, visible |-> TRUE]
\* <a data-testid="login_link">Log in</a>
LoginLink == [tag |-> "a", text |-> <<"L", "o", "g", " ", "i", "n">>, aria |-> <<>>, testid |-> <<"l", "o", "g", "i", "n", "_", "l", "i", "n", "k">>, visible |-> TRUE]
\* <button aria-label="Submit" hidden></button>
HiddenSubmit == [tag |-> "button", text |-> <<>>, aria |-> <<"S", "u", "b", "m", "i", "t">>, testid |-> <<>>, visible |-> FALSE]
SdNodes == {SubmitButton, MarkerButton, LoginLink, HiddenSubmit}
\* the main documents suggestDummyReplacements is run on
SdMainDocs == DocsUpTo(MaxElems, SdNodes)
\* test code texts, none with an opening of a quoted pattern
SdCodes ==
    {c \in
    { <<"a", "w", "a", "i", "t", " ", "p", "a", "g", "e", ".", "c", "l", "i", "c", "k", "(", "p", "l", "a", "c", "e", "h", "o", "l", "d", "e", "r", "_", "s", "u", "b", "m", "i", "t", "B", "u", "t", "t", "o", "n", ")", ";">>,
      <<"c", "l", "i", "c", "k", "(", "d", "u", "m", "m", "y", "_", "l", "o", "g", "i", "n", ")", ";", " ", "f", "i", "l", "l", "(", "t", "e", "s", "t", "_", "u", "s", "e", "r", ")">>,
      <<"c", "l", "i", "c", "k", "(", "p", "l", "a", "c", "e", "h", "o", "l", "d", "e", "r", "_", "s", "u", "b", "m", "i", "t", "B", "u", "t", "t", "o", "n", ")", ";", " ", "c", "l", "i", "c", "k", "(", "p", "l", "a", "c", "e", "h", "o", "l", "d", "e", "r", "_", "s", "u", "b", "m", "i", "t", "B", "u", "t", "t", "o", "n", ")">>,
      <<"p", "a", "g", "e", ".", "g", "e", "t", "B", "y", "T", "e", "x", "t", "(", "'", "S", "u", "b", "m", "i", "t", "'", ")", ".", "c", "l", "i", "c", "k", "(", ")">>,
      <<"p", "l", "a", "c", "e", "h", "o", "l", "d", "e", "r", "_">> } :
        \A o \in QuotedPatternOpenings : ~Includes(c, o)}
\* entries kept per dummy pattern occurrence
MaxSuggestionsKept == 6

SdIdle ==
    /\ sdPc = "idle" /\ sdCode = <<>> /\ sdDocs = [f \in FrameNumbers |-> <<>>]
    /\ sdTodo = <<>> /\ sdOut = <<>>

SdStart ==
    /\ sdPc = "scan"
    /\ sdCode \in SdCodes
    /\ \E main \in SdMainDocs :
         sdDocs = [f \in FrameNumbers |-> IF f = 0 THEN main ELSE <<>>]
    /\ sdTodo = DummyMatches(sdCode)
    /\ sdOut = <<>>

SdUrls == [f \in FrameNumbers |-> IF f = 0 THEN PageUrl ELSE BlankUrl]

\* the body of `for (const m of matches)`: out is kept as a list of entries
\* [key, suggestions], a later entry of a key replacing the earlier one
SdStep ==
    /\ UNCHANGED sdOthers
    /\ sdPc = "scan" /\ sdTodo # <<>>
    /\ LET m == Head(sdTodo)
           hint == HintOfDummy(m)
           suggestions == suggestLocators(Frames, SdUrls, {}, CountsOf(sdDocs, hint),
                                          VisibleOf(sdDocs, hint), hint)
           kept == SubSeq(suggestions, 1, Min(MaxSuggestionsKept, Len(suggestions)))
       IN sdOut' = IF hint = <<>> \/ suggestions = <<>> THEN sdOut
                   ELSE SelectSeq(sdOut, LAMBDA en : en.key # m)
                        \o <<[key |-> m, suggestions |-> kept]>>
    /\ sdTodo' = Tail(sdTodo)
    /\ UNCHANGED <<sdPc, sdCode, sdDocs>>

\* return out
SdReturn ==
    /\ UNCHANGED sdOthers
    /\ sdPc = "scan" /\ sdTodo = <<>>
    /\ sdPc' = "done"
    /\ UNCHANGED <<sdCode, sdDocs, sdTodo, sdOut>>

SdNext == SdStep \/ SdReturn

(***************************************************************************)
(* getAllContexts, stepwise                                                *)
(***************************************************************************)
\* most child frames a page holds
MaxPageFrames == 4

\* page.frames() of a page with n child frames
FramesOf(n) == [i \in 1..(n + 1) |-> i - 1]

GcIdle ==
    /\ gcPc = "idle" /\ gcFrames = <<0>> /\ gcBroken = {} /\ gcPos = 0
    /\ gcContexts = <<>> /\ gcAccess = "none"

\* after `const contexts = [page]`
GcStart ==
    /\ gcPc = "loop"
    /\ \E n \in 0..MaxPageFrames :
         /\ gcFrames = FramesOf(n)
         /\ gcBroken \in SUBSET (1..n)
    /\ gcPos = 0
    /\ gcContexts = <<PageCtx>>
    /\ gcAccess = "none"

\* try { contexts.push(f) } catch {}: push touches no frame and never throws
GcPush ==
    /\ UNCHANGED gcOthers
    /\ gcPc = "loop" /\ gcPos < Len(gcFrames)
    /\ gcContexts' = Append(gcContexts, FrameCtx(gcFrames[gcPos + 1]))
    /\ gcPos' = gcPos + 1
    /\ UNCHANGED <<gcPc, gcFrames, gcBroken, gcAccess>>

\* return contexts
GcReturn ==
    /\ UNCHANGED gcOthers
    /\ gcPc = "loop" /\ gcPos = Len(gcFrames)
    /\ gcPc' = "returned"
    /\ UNCHANGED <<gcFrames, gcBroken, gcPos, gcContexts, gcAccess>>

\* a caller's `for (const ctx of getAllContexts(page))` evaluates in one context
GcUse ==
    /\ UNCHANGED gcOthers
    /\ gcPc = "returned"
    /\ \E i \in 1..Len(gcContexts) :
         gcAccess' = IF gcContexts[i].kind = "frame" /\ gcContexts[i].frame \in gcBroken
                     THEN "failed" ELSE "ok"
    /\ gcPc' = "used"
    /\ UNCHANGED <<gcFrames, gcBroken, gcPos, gcContexts>>

GcNext == GcPush \/ GcReturn \/ GcUse

(***************************************************************************)
(* Number(): the conversion debugStep applies to STEP_DELAY_MS             *)
(***************************************************************************)
\* a Number: NaN, an infinity, or (-1)^neg * mant * 10^exp in lowest form
\* (exp <= 0, and mant not divisible by 10 when exp < 0)
JsNaN == [kind |-> "nan", neg |-> FALSE, mant |-> 0, exp |-> 0]
JsInfinity(neg) == [kind |-> "inf", neg |-> neg, mant |-> 0, exp |-> 0]
RECURSIVE JsNum(_, _, _)
JsNum(neg, mant, exp) ==
    IF mant = 0 THEN [kind |-> "num", neg |-> neg, mant |-> 0, exp |-> 0]
    ELSE IF exp > 0 THEN JsNum(neg, mant * 10, exp - 1)
    ELSE IF exp < 0 /\ mant % 10 = 0 THEN JsNum(neg, mant \div 10, exp + 1)
    ELSE [kind |-> "num", neg |-> neg, mant |-> mant, exp |-> exp]
JsInt(n) == JsNum(FALSE, n, 0)

\* the digits of the radixes a numeric string may use
DigitChars == <<"0", "1", "2", "3", "4", "5", "6", "7", "8", "9",
                "a", "b", "c", "d", "e", "f">>
IsDigitOf(c, radix) == \E i \in 1..radix : DigitChars[i] = LowerChar(c)
DigitValue(c) == (CHOOSE i \in 1..Len(DigitChars) : DigitChars[i] = LowerChar(c)) - 1
AllDigitsOf(s, radix) == \A i \in 1..Len(s) : IsDigitOf(s[i], radix)
\* the value of a run of digits
RECURSIVE DigitsValue(_, _)
DigitsValue(s, radix) ==
    IF s = <<>> THEN 0
    ELSE DigitsValue(SubSeq(s, 1, Len(s) - 1), radix) * radix + DigitValue(s[Len(s)])

\* StrWhiteSpaceChar
JsWhiteSpace == {" ", "\t", "\n", "\r"}
RECURSIVE TrimStart(_)
TrimStart(s) == IF s # <<>> /\ s[1] \in JsWhiteSpace THEN TrimStart(Tail(s)) ELSE s
RECURSIVE TrimEnd(_)
TrimEnd(s) ==
    IF s # <<>> /\ s[Len(s)] \in JsWhiteSpace THEN TrimEnd(SubSeq(s, 1, Len(s) - 1)) ELSE s
Trim(s) == TrimEnd(TrimStart(s))

\* length of the longest prefix of s made of decimal digits
RECURSIVE DigitRun(_)
DigitRun(s) == IF s # <<>> /\ IsDigitOf(s[1], 10) THEN 1 + DigitRun(Tail(s)) ELSE 0
Drop(s, n) == SubSeq(s, n + 1, Len(s))

\* ExponentPart: e or E, an optional sign, at least one digit; <<>> stands for none
ExponentOk(s) ==
    \/ s = <<>>
    \/ /\ Len(s) >= 2 /\ LowerChar(s[1]) = "e"
       /\ LET d == IF s[2] \in {"+", "-"} THEN Drop(s, 2) ELSE Drop(s, 1)
          IN d # <<>> /\ AllDigitsOf(d, 10)
ExponentValue(s) ==
    IF s = <<>> THEN 0
    ELSE IF s[2] = "-" THEN 0 - DigitsValue(Drop(s, 2), 10)
    ELSE IF s[2] = "+" THEN DigitsValue(Drop(s, 2), 10)
    ELSE DigitsValue(Drop(s, 1), 10)

\* StrUnsignedDecimalLiteral: digits [. digits] [exponent] or . digits [exponent]
UnsignedDecimal(neg, s) ==
    LET ni == DigitRun(s)
        int == SubSeq(s, 1, ni)
        r1 == Drop(s, ni)
        dot == r1 # <<>> /\ r1[1] = "."
        r2 == IF dot THEN Tail(r1) ELSE r1
        nf == IF dot THEN DigitRun(r2) ELSE 0
        frac == SubSeq(r2, 1, nf)
        r3 == Drop(r2, nf)
    IN IF ni + nf > 0 /\ ExponentOk(r3)
       THEN JsNum(neg, DigitsValue(int \o frac, 10), ExponentValue(r3) - nf)
       ELSE JsNaN

\* 0x, 0o and 0b literals take no sign
RadixOf(c) == IF LowerChar(c) = "x" THEN 16 ELSE IF LowerChar(c) = "o" THEN 8
              ELSE IF LowerChar(c) = "b" THEN 2 ELSE 0

\* StringToNumber
StringToNumber(s) ==
    LET t == Trim(s)
    IN IF t = <<>> THEN JsInt(0)
       ELSE IF Len(t) >= 2 /\ t[1] = "0" /\ RadixOf(t[2]) # 0
       THEN (IF Len(t) >= 3 /\ AllDigitsOf(Drop(t, 2), RadixOf(t[2]))
             THEN JsInt(DigitsValue(Drop(t, 2), RadixOf(t[2]))) ELSE JsNaN)
       ELSE LET signed == t[1] \in {"+", "-"}
                neg == t[1] = "-"
                body == IF signed THEN Tail(t) ELSE t
            IN IF body = <<"I", "n", "f", "i", "n", "i", "t", "y">> THEN JsInfinity(neg)
               ELSE UnsignedDecimal(neg, body)

\* an entry of process.env: unset (undefined) or a string
EnvUnset == [set |-> FALSE, text |-> <<>>]
EnvSet(s) == [set |-> TRUE, text |-> s]
\* Number(v): undefined gives NaN
Number(v) == IF v.set THEN StringToNumber(v.text) ELSE JsNaN
\* Number.isFinite(x)
NumberIsFinite(x) == x.kind = "num"
\* x >= 0 (true of -0)
NonNegative(x) ==
    \/ x.kind = "num" /\ (~x.neg \/ x.mant = 0)
    \/ x.kind = "inf" /\ ~x.neg
\* a value used as a condition: undefined and the empty string are falsy
Truthy(v) == v.set /\ v.text # <<>>

(***************************************************************************)
(* debugStep (the same statements in both files)                           *)
(***************************************************************************)
\* the delay used when STEP_DELAY_MS gives no usable number
DefaultStepDelayMs == 1000

\* stepDelayMs
StepDelayMs(env) ==
    LET stepDelayEnv == Number(env)
    IN IF NumberIsFinite(stepDelayEnv) /\ NonNegative(stepDelayEnv)
       THEN stepDelayEnv ELSE JsInt(DefaultStepDelayMs)

\* process.env.PWDEBUG || process.env.STEP_CONFIRM === '1'
PauseWanted(pwdebug, confirm) == Truthy(pwdebug) \/ confirm = EnvSet(<<"1">>)

DelayEnvs ==
    {EnvUnset} \cup
    {EnvSet(s) : s \in {<<>>, <<" ">>, <<"0">>, <<"7">>, <<"2", "5", "0">>, <<"1", "0", "0", "0">>, <<"-", "5">>, <<"a", "b", "c">>, <<"1", ".", "5">>, <<"2", ".", "0">>,
                        <<"+", "3">>, <<"1", "e", "3">>, <<"0", "x", "1", "0">>, <<"I", "n", "f", "i", "n", "i", "t", "y">>, <<"1", "2", "p", "x">>, <<" ", "3", "0", " ">>}}
PwdebugEnvs == {EnvUnset, EnvSet(<<>>), EnvSet(<<"1">>), EnvSet(<<"0">>), EnvSet(<<"c", "o", "n", "s", "o", "l", "e">>)}
ConfirmEnvs == {EnvUnset, EnvSet(<<"1">>), EnvSet(<<"0">>), EnvSet(<<"t", "r", "u", "e">>)}

DsEvent(ev, ms) == [ev |-> ev, ms |-> ms]

DsIdle ==
    /\ dsPc = "idle" /\ dsDelayEnv = EnvUnset /\ dsPwdebug = EnvUnset
    /\ dsConfirm = EnvUnset /\ dsTitleFails = FALSE /\ dsLog = <<>>

DsStart ==
    /\ dsPc = "start"
    /\ dsDelayEnv \in DelayEnvs
    /\ dsPwdebug \in PwdebugEnvs
    /\ dsConfirm \in ConfirmEnvs
    /\ dsTitleFails \in BOOLEAN
    /\ dsLog = <<>>

\* await page.waitForTimeout(stepDelayMs)
DsWait ==
    /\ UNCHANGED dsOthers
    /\ dsPc = "start"
    /\ dsLog' = Append(dsLog, DsEvent("waitForTimeout", StepDelayMs(dsDelayEnv)))
    /\ dsPc' = "waited"
    /\ UNCHANGED <<dsDelayEnv, dsPwdebug, dsConfirm, dsTitleFails>>

\* if (PWDEBUG || STEP_CONFIRM === '1') await page.pause()
DsPause ==
    /\ UNCHANGED dsOthers
    /\ dsPc = "waited" /\ PauseWanted(dsPwdebug, dsConfirm)
    /\ dsLog' = Append(dsLog, DsEvent("pause", JsInt(0)))
    /\ dsPc' = "report"
    /\ UNCHANGED <<dsDelayEnv, dsPwdebug, dsConfirm, dsTitleFails>>

\* the condition is false: no pause
DsNoPause ==
    /\ UNCHANGED dsOthers
    /\ dsPc = "waited" /\ ~PauseWanted(dsPwdebug, dsConfirm)
    /\ dsPc' = "report"
    /\ UNCHANGED <<dsDelayEnv, dsPwdebug, dsConfirm, dsTitleFails, dsLog>>

\* page.url(); await page.title(); the two console.log lines
DsReport ==
    /\ UNCHANGED dsOthers
    /\ dsPc = "report"
    /\ dsLog' = Append(dsLog, DsEvent("title", JsInt(0)))
    /\ dsPc' = IF dsTitleFails THEN "threw" ELSE "done"
    /\ UNCHANGED <<dsDelayEnv, dsPwdebug, dsConfirm, dsTitleFails>>

DsNext == DsWait \/ DsPause \/ DsNoPause \/ DsReport

(***************************************************************************)
(* understandPrompt, fixCommonIssues and smartAction                       *)
(***************************************************************************)
\* the prompts tried hold every sequence of up to MaxPhrases phrases
MaxPhrases == 2

\* the phrase kinds the patterns recognise, in the order of the pattern table:
\* go to <url> / login with username .. and password .. / click '..' /
\* enter '..' into .. / verify '..' is .. / wait for '..'
PatternTable == <<"goto", "login", "click", "enter", "verify", "wait">>
\* a phrase no pattern matches
PhraseKinds == {PatternTable[k] : k \in 1..Len(PatternTable)} \cup {"other"}

\* pattern.action(match) for a match of the phrase at position pos of the prompt
PatternAction(kind, pos) ==
    CASE kind = "goto" -> <<[type |-> "navigate", pos |-> pos, part |-> 1]>>
      [] kind = "login" -> <<[type |-> "fill", pos |-> pos, part |-> 1],
                             [type |-> "fill", pos |-> pos, part |-> 2]>>
      [] kind = "click" -> <<[type |-> "click", pos |-> pos, part |-> 1]>>
      [] kind = "enter" -> <<[type |-> "fill", pos |-> pos, part |-> 1]>>
      [] kind = "verify" -> <<[type |-> "verify", pos |-> pos, part |-> 1]>>
      [] kind = "wait" -> <<[type |-> "wait", pos |-> pos, part |-> 1]>>

\* prompt.match(pattern.regex): the leftmost phrase of the kind, 0 for no match
FirstPhrase(prompt, kind) ==
    IF \E i \in 1..Len(prompt) : prompt[i] = kind
    THEN CHOOSE i \in 1..Len(prompt) :
            prompt[i] = kind /\ \A j \in 1..(i - 1) : prompt[j] # kind
    ELSE 0

\* for (const pattern of patterns) { match = prompt.match(..); if (match) actions.push(..) },
\* from pattern k on
RECURSIVE PromptActionsFrom(_, _)
PromptActionsFrom(prompt, k) ==
    IF k > Len(PatternTable) THEN <<>>
    ELSE LET pos == FirstPhrase(prompt, PatternTable[k])
         IN (IF pos > 0 THEN PatternAction(PatternTable[k], pos) ELSE <<>>)
            \o PromptActionsFrom(prompt, k + 1)
\* an understandPrompt that takes the phrases as they come, every one of them
PromptActionsInReadingOrder(prompt) ==
    LET RECURSIVE From(_)
        From(i) == IF i > Len(prompt) THEN <<>>
                   ELSE (IF prompt[i] = "other" THEN <<>> ELSE PatternAction(prompt[i], i))
                        \o From(i + 1)
    IN From(1)
\* understandPrompt(prompt).actions
understandPrompt(prompt) == PromptActionsFrom(prompt, 1)

\* messages of the errors an action may throw
ErrNotFound == <<"E", "l", "e", "m", "e", "n", "t", " ", "n", "o", "t", " ", "f", "o", "u", "n", "d", ":", " ", "#", "s", "u", "b", "m", "i", "t">>
ErrTimeout == <<"p", "a", "g", "e", ".", "g", "o", "t", "o", ":", " ", "T", "i", "m", "e", "o", "u", "t", " ", "3", "0", "0", "0", "0", "m", "s", " ", "e", "x", "c", "e", "e", "d", "e", "d", ".">>
ErrAutoClick == <<"A", "u", "t", "o", "-", "c", "l", "i", "c", "k", " ", "c", "o", "u", "l", "d", " ", "n", "o", "t", " ", "f", "i", "n", "d", " ", "e", "l", "e", "m", "e", "n", "t", " ", "f", "o", "r", " ", "L", "o", "g", "i", "n">>
ErrClosed == <<"T", "a", "r", "g", "e", "t", " ", "p", "a", "g", "e", ",", " ", "c", "o", "n", "t", "e", "x", "t", " ", "o", "r", " ", "b", "r", "o", "w", "s", "e", "r", " ", "h", "a", "s", " ", "b", "e", "e", "n", " ", "c", "l", "o", "s", "e", "d">>
ErrMessages == {ErrNotFound, ErrTimeout, ErrAutoClick, ErrClosed}

\* whether fixCommonIssues takes the error for one it knows
KnownIssue(message) ==
    LET errorMessage == ToLower(message)
    IN Includes(errorMessage, <<"e", "l", "e", "m", "e", "n", "t", " ", "n", "o", "t", " ", "f", "o", "u", "n", "d">>) \/ Includes(errorMessage, <<"t", "i", "m", "e", "o", "u", "t">>)
\* a fixCommonIssues that reports every error fixed
FixesAnything(message, idleOk) == TRUE
\* fixCommonIssues(page, error): idleOk tells whether waitForLoadState('networkidle') resolves
fixCommonIssues(message, idleOk) == KnownIssue(message) /\ idleOk

\* a prompt with one phrase of every kind, last pattern first, and the same
\* prompt said twice
ReversedPrompt == [i \in 1..Len(PatternTable) |-> PatternTable[Len(PatternTable) + 1 - i]]
Prompts ==
    UNION {[1..n -> PhraseKinds] : n \in 0..MaxPhrases}
        \cup {ReversedPrompt, ReversedPrompt \o ReversedPrompt}

SmIdle ==
    /\ smPc = "idle" /\ smPrompt = <<>> /\ smActions = <<>> /\ smIdx = 0
    /\ smLog = <<>> /\ smError = <<>> /\ smThrown = <<>>

\* after `const requirements = await understandPrompt(instruction)`
SmStart ==
    /\ smPc = "act"
    /\ smPrompt \in Prompts
    /\ smActions = understandPrompt(smPrompt)
    /\ smIdx = 1
    /\ smLog = <<>> /\ smError = <<>> /\ smThrown = <<>>

\* try { switch (action.type) ... }: the action completes or throws
SmRun ==
    /\ UNCHANGED smOthers
    /\ smPc = "act" /\ smIdx <= Len(smActions)
    /\ smLog' = Append(smLog, [ev |-> "run", idx |-> smIdx, fixed |-> FALSE,
                                msg |-> <<>>, idleOk |-> FALSE])
    /\ \/ smPc' = "sleep" /\ smError' = smError
       \/ \E m \in ErrMessages : smPc' = "fix" /\ smError' = m
    /\ UNCHANGED <<smPrompt, smActions, smIdx, smThrown>>

\* catch (error) { const fixed = await fixCommonIssues(page, error); if (!fixed) throw error }
SmFix ==
    /\ UNCHANGED smOthers
    /\ smPc = "fix"
    /\ \E idleOk \in BOOLEAN :
         LET fixed == fixCommonIssues(smError, idleOk)
         IN /\ smLog' = Append(smLog, [ev |-> "fix", idx |-> smIdx, fixed |-> fixed,
                                        msg |-> smError, idleOk |-> idleOk])
            /\ smPc' = IF fixed THEN "sleep" ELSE "threw"
            /\ smThrown' = IF fixed THEN smThrown ELSE smError
    /\ UNCHANGED <<smPrompt, smActions, smIdx, smError>>

\* await page.waitForTimeout(500), outside the try
SmSleep ==
    /\ UNCHANGED smOthers
    /\ smPc = "sleep"
    /\ \E ok \in BOOLEAN :
         IF ok THEN smPc' = "act" /\ smIdx' = smIdx + 1 /\ smThrown' = smThrown
         ELSE smPc' = "threw" /\ smIdx' = smIdx /\ smThrown' = ErrClosed
    /\ UNCHANGED <<smPrompt, smActions, smLog, smError>>

\* the loop has handled every action
SmReturn ==
    /\ UNCHANGED smOthers
    /\ smPc = "act" /\ smIdx > Len(smActions)
    /\ smPc' = "done"
    /\ UNCHANGED <<smPrompt, smActions, smIdx, smLog, smError, smThrown>>

SmNext == SmRun \/ SmFix \/ SmSleep \/ SmReturn

(***************************************************************************)
(* TestLearningSystem: learnFromTest and getRecommendedLocators            *)
(***************************************************************************)
\* most learnFromTest calls of one process
MaxLearnCalls == 3

\* \s
IsSpaceChar(c) == c \in {" ", "\t", "\n"}

\* whether text holds t at index k
HasAt(text, t, k) == k + Len(t) - 1 <= Len(text) /\ SubSeq(text, k, k + Len(t) - 1) = t

RECURSIVE FirstClose(_, _)
\* index of the first ")" at or after i, 0 when there is none
FirstClose(text, i) ==
    IF i > Len(text) THEN 0
    ELSE IF text[i] = ")" THEN i
    ELSE FirstClose(text, i + 1)

\* \([^)]+\) with its "(" at index open: index of the closing ")", 0 when the
\* pattern fails
ArgsEnd(text, open) ==
    LET close == FirstClose(text, open + 1)
    IN IF close > open + 1 THEN close ELSE 0

\* page\.(getBy\w+|locator)\( tried at index i: index of the "(", 0 when it fails
LocatorOpen(text, i) ==
    IF ~HasAt(text, <<"p", "a", "g", "e", ".">>, i) THEN 0
    ELSE IF HasAt(text, <<"g", "e", "t", "B", "y">>, i + 5) /\ i + 10 <= Len(text) /\ IsWordChar(text[i + 10])
    THEN LET e == WordEnd(text, i + 10)
         IN IF e < Len(text) /\ text[e + 1] = "(" THEN e + 1 ELSE 0
    ELSE IF HasAt(text, <<"l", "o", "c", "a", "t", "o", "r", "(">>, i + 5) THEN i + 12
    ELSE 0

RECURSIVE LocatorMatchesFrom(_, _)
\* testCode.match(/page\.(getBy\w+|locator)\([^)]+\)/g) from index i on
LocatorMatchesFrom(text, i) ==
    IF i > Len(text) THEN <<>>
    ELSE LET open == LocatorOpen(text, i)
             close == IF open = 0 THEN 0 ELSE ArgsEnd(text, open)
         IN IF close > 0
            THEN <<SubSeq(text, i, close)>> \o LocatorMatchesFrom(text, close + 1)
            ELSE LocatorMatchesFrom(text, i + 1)

LocatorMatches(testCode) == LocatorMatchesFrom(testCode, 1)

\* the verbs of the action pattern, in the order of its alternation
ActionVerbs == <<<<"c", "l", "i", "c", "k">>, <<"f", "i", "l", "l">>, <<"s", "e", "l", "e", "c", "t">>, <<"w", "a", "i", "t", "F", "o", "r">>>>

RECURSIVE SkipSpaces(_, _)
\* \s* from index i: the index after the run of white space
SkipSpaces(text, i) ==
    IF i <= Len(text) /\ IsSpaceChar(text[i]) THEN SkipSpaces(text, i + 1) ELSE i

\* (click|fill|select|waitFor)\s*\( tried at index i: index of the "(", 0 when
\* it fails
ActionOpen(text, i) ==
    IF \E v \in 1..Len(ActionVerbs) : HasAt(text, ActionVerbs[v], i)
    THEN LET v == CHOOSE w \in 1..Len(ActionVerbs) : HasAt(text, ActionVerbs[w], i)
             j == SkipSpaces(text, i + Len(ActionVerbs[v]))
         IN IF j <= Len(text) /\ text[j] = "(" THEN j ELSE 0
    ELSE 0

\* extractPattern: the text before the first "(" is the type
extractPattern(action, open) ==
    [type |-> SubSeq(action, 1, open - 1), pattern |-> action, success |-> TRUE]

RECURSIVE ActionMatchesFrom(_, _)
\* testCode.match(/(click|fill|select|waitFor)\s*\([^)]+\)/g) from index i on,
\* each match run through extractPattern
ActionMatchesFrom(text, i) ==
    IF i > Len(text) THEN <<>>
    ELSE LET open == ActionOpen(text, i)
             close == IF open = 0 THEN 0 ELSE ArgsEnd(text, open)
         IN IF close > 0
            THEN <<extractPattern(SubSeq(text, i, close), open - i + 1)>>
                 \o ActionMatchesFrom(text, close + 1)
            ELSE ActionMatchesFrom(text, i + 1)

ActionMatches(testCode) == ActionMatchesFrom(testCode, 1)

\* the context keys extractContext can return
LearnContexts == {"button", "input", "text", "generic"}

extractContext(locator) ==
    IF Includes(locator, <<"g", "e", "t", "B", "y", "R", "o", "l", "e">>) THEN "button"
    ELSE IF Includes(locator, <<"g", "e", "t", "B", "y", "L", "a", "b", "e", "l">>) THEN "input"
    ELSE IF Includes(locator, <<"g", "e", "t", "B", "y", "T", "e", "x", "t">>) THEN "text"
    ELSE "generic"

\* a list that keeps one copy of each locator text
PushOnce(list, match) ==
    IF \E k \in 1..Len(list) : list[k] = match THEN list ELSE Append(list, match)

\* this.successfulLocators.get(key)!.push(match)
Push(list, match) == Append(list, match)

\* this.successfulLocators.get(context) || []
Recommended(table, context) == IF context \in DOMAIN table THEN table[context] ELSE <<>>

RECURSIVE LearnLocators(_, _)
\* locatorMatches.forEach: a missing key starts as [], then the match is pushed
LearnLocators(table, matches) ==
    IF matches = <<>> THEN table
    ELSE LET match == Head(matches)
             key == extractContext(match)
             next == [k \in DOMAIN table \cup {key} |->
                        IF k = key THEN Push(Recommended(table, key), match) ELSE table[k]]
         IN LearnLocators(next, Tail(matches))

RECURSIVE LearnPatterns(_, _)
\* actionMatches.forEach: this.patterns.set(pattern.type, pattern)
LearnPatterns(patterns, found) ==
    IF found = <<>> THEN patterns
    ELSE LET p == Head(found)
             next == [t \in DOMAIN patterns \cup {p.type} |->
                        IF t = p.type THEN p ELSE patterns[t]]
         IN LearnPatterns(next, Tail(found))

\* a Map with no entries
EmptyMap == [k \in {} |-> <<>>]

\* test code passed to learnFromTest
CodeRoleClick == <<"p", "a", "g", "e", ".", "g", "e", "t", "B", "y", "R", "o", "l", "e", "(", "'", "b", "u", "t", "t", "o", "n", "'", ")", ".", "c", "l", "i", "c", "k", "(", ")">>
CodeLabelFill == <<"p", "a", "g", "e", ".", "g", "e", "t", "B", "y", "L", "a", "b", "e", "l", "(", "'", "U", "s", "e", "r", "'", ")", ".", "f", "i", "l", "l", "(", "'", "x", "'", ")">>
CodeText == <<"p", "a", "g", "e", ".", "g", "e", "t", "B", "y", "T", "e", "x", "t", "(", "'", "H", "i", "'", ")">>
CodeTwoGeneric == <<"p", "a", "g", "e", ".", "l", "o", "c", "a", "t", "o", "r", "(", "'", "#", "a", "'", ")", ";", " ", "p", "a", "g", "e", ".", "g", "e", "t", "B", "y", "T", "e", "s", "t", "I", "d", "(", "'", "b", "'", ")">>
CodeNoArgs == <<"p", "a", "g", "e", ".", "l", "o", "c", "a", "t", "o", "r", "(", ")">>
CodeRoleInSelector == <<"p", "a", "g", "e", ".", "l", "o", "c", "a", "t", "o", "r", "(", "'", ".", "g", "e", "t", "B", "y", "R", "o", "l", "e", "'", ")">>
CodeOtherReceiver == <<"f", "r", "a", "m", "e", ".", "g", "e", "t", "B", "y", "T", "e", "x", "t", "(", "'", "x", "'", ")", ";", " ", "f", "i", "l", "l", " ", "(", "'", "y", "'", ")">>
CodeSameTwice == <<"p", "a", "g", "e", ".", "g", "e", "t", "B", "y", "R", "o", "l", "e", "(", "'", "a", "'", ")", ";", " ", "p", "a", "g", "e", ".", "g", "e", "t", "B", "y", "R", "o", "l", "e", "(", "'", "a", "'", ")">>
TestCodes ==
    {CodeRoleClick, CodeLabelFill, CodeText, CodeTwoGeneric, CodeNoArgs,
     CodeRoleInSelector, CodeOtherReceiver, CodeSameTwice}

\* contexts asked of getRecommendedLocators
AskedContexts == LearnContexts \cup {"link"}

LsIdle ==
    /\ lsPc = "idle" /\ lsLocators = EmptyMap /\ lsPatterns = EmptyMap
    /\ lsCalls = <<>> /\ lsAnswer = <<>>

\* const learningSystem = new TestLearningSystem()
LsStart ==
    /\ lsPc = "ready" /\ lsLocators = EmptyMap /\ lsPatterns = EmptyMap
    /\ lsCalls = <<>> /\ lsAnswer = <<>>

\* learningSystem.learnFromTest(testCode)
LsLearn ==
    /\ UNCHANGED lsOthers
    /\ lsPc = "ready" /\ Len(lsCalls) < MaxLearnCalls
    /\ \E testCode \in TestCodes :
         /\ lsLocators' = LearnLocators(lsLocators, LocatorMatches(testCode))
         /\ lsPatterns' = LearnPatterns(lsPatterns, ActionMatches(testCode))
         /\ lsCalls' = Append(lsCalls, testCode)
    /\ UNCHANGED <<lsPc, lsAnswer>>

\* learningSystem.getRecommendedLocators(context)
LsRecommend ==
    /\ UNCHANGED lsOthers
    /\ lsPc = "ready"
    /\ \E context \in AskedContexts : lsAnswer' = Recommended(lsLocators, context)
    /\ UNCHANGED <<lsPc, lsLocators, lsPatterns, lsCalls>>

LsNext == LsLearn \/ LsRecommend

(***************************************************************************)
(* Specifications: one per fixture function, the others idle               *)
(***************************************************************************)
FxInit == FxStart /\ RlIdle /\ EdrIdle /\ AvIdle /\ FfIdle /\ AfIdle /\ AcIdle /\ SgIdle /\ SdIdle /\ GcIdle /\ DsIdle /\ SmIdle /\ LsIdle
RlInit == RlStart /\ FxIdle /\ EdrIdle /\ AvIdle /\ FfIdle /\ AfIdle /\ AcIdle /\ SgIdle /\ SdIdle /\ GcIdle /\ DsIdle /\ SmIdle /\ LsIdle
EdrInit == EdrStart /\ FxIdle /\ RlIdle /\ AvIdle /\ FfIdle /\ AfIdle /\ AcIdle /\ SgIdle /\ SdIdle /\ GcIdle /\ DsIdle /\ SmIdle /\ LsIdle
AvInit == AvStart /\ FxIdle /\ RlIdle /\ EdrIdle /\ FfIdle /\ AfIdle /\ AcIdle /\ SgIdle /\ SdIdle /\ GcIdle /\ DsIdle /\ SmIdle /\ LsIdle
FfInit == FfStart /\ FxIdle /\ RlIdle /\ EdrIdle /\ AvIdle /\ AfIdle /\ AcIdle /\ SgIdle /\ SdIdle /\ GcIdle /\ DsIdle /\ SmIdle /\ LsIdle

AfInit == AfStart /\ FxIdle /\ RlIdle /\ EdrIdle /\ AvIdle /\ FfIdle /\ AcIdle /\ SgIdle /\ SdIdle /\ GcIdle /\ DsIdle /\ SmIdle /\ LsIdle
AcInit == AcStart /\ FxIdle /\ RlIdle /\ EdrIdle /\ AvIdle /\ FfIdle /\ AfIdle /\ SgIdle /\ SdIdle /\ GcIdle /\ DsIdle /\ SmIdle /\ LsIdle

SgInit == SgStart /\ FxIdle /\ RlIdle /\ EdrIdle /\ AvIdle /\ FfIdle /\ AfIdle /\ AcIdle /\ SdIdle /\ GcIdle /\ DsIdle /\ SmIdle /\ LsIdle

SdInit == SdStart /\ FxIdle /\ RlIdle /\ EdrIdle /\ AvIdle /\ FfIdle /\ AfIdle /\ AcIdle /\ SgIdle /\ GcIdle /\ DsIdle /\ SmIdle /\ LsIdle
GcInit == GcStart /\ FxIdle /\ RlIdle /\ EdrIdle /\ AvIdle /\ FfIdle /\ AfIdle /\ AcIdle /\ SgIdle /\ SdIdle /\ DsIdle /\ SmIdle /\ LsIdle
DsInit == DsStart /\ FxIdle /\ RlIdle /\ EdrIdle /\ AvIdle /\ FfIdle /\ AfIdle /\ AcIdle /\ SgIdle /\ SdIdle /\ GcIdle /\ SmIdle /\ LsIdle
SmInit == SmStart /\ FxIdle /\ RlIdle /\ EdrIdle /\ AvIdle /\ FfIdle /\ AfIdle /\ AcIdle /\ SgIdle /\ SdIdle /\ GcIdle /\ DsIdle /\ LsIdle
LsInit == LsStart /\ FxIdle /\ RlIdle /\ EdrIdle /\ AvIdle /\ FfIdle /\ AfIdle /\ AcIdle /\ SgIdle /\ SdIdle /\ GcIdle /\ DsIdle /\ SmIdle

SpecFixture == FxInit /\ [][FxNext]_vars
SpecResolve == RlInit /\ [][RlNext]_vars
SpecReady == EdrInit /\ [][EdrNext]_vars
\* every await of ensureDomReady settles: the call keeps taking steps
SpecReadyLive == EdrInit /\ [][EdrNext]_vars /\ WF_vars(EdrNext)
SpecVisible == AvInit /\ [][AvNext]_vars
SpecScorer == FfInit /\ [][FfNext]_vars
SpecFill == AfInit /\ [][AfNext]_vars
SpecClick == AcInit /\ [][AcNext]_vars
SpecSuggest == SgInit /\ [][SgNext]_vars
SpecDummy == SdInit /\ [][SdNext]_vars
SpecContexts == GcInit /\ [][GcNext]_vars
SpecDebugStep == DsInit /\ [][DsNext]_vars
SpecSmart == SmInit /\ [][SmNext]_vars
SpecLearn == LsInit /\ [][LsNext]_vars

(***************************************************************************)
(* Claims                                                                  *)
(***************************************************************************)

\* C1: once the body's error has reached the page fixture, the fixture never
\* completes, lets no error leave it and closes nothing; page, context and
\* browser are closed only when the test status is 'passed'.
C1_HangsOnFailure ==
    /\ fxCaught => (fxPc # "done" /\ fxThrown = "none" /\ fxClosed = {})
    /\ fxClosed # {} => fxStatus = "passed"

\* C2: for a hint that never matches, the timeout error of autoExpectVisible is
\* raised no earlier than timeoutMs after the start and no later than timeoutMs
\* plus one poll interval.
C2_RaisesWithinOnePoll ==
    (avPc = "threw" /\ avError = "timeout" /\ ~avMatchable) =>
        /\ now >= avStart + avTimeout
        /\ now <= avStart + avTimeout + VisiblePollMs

\* C3: ensureDomReady never throws.
C3_NeverThrows == edrPc # "threw"

\* C4: findFieldLocator returns none when every input of every scanned
\* context scores below 25, and an element it returns scores at least 25 in
\* its own context.
C4_NoneBelowThreshold ==
    (ffPc = "done" /\ ffResult.kind # "threw") =>
        /\ (\A f \in FrameNumbers : \A i \in 1..Len(ffDocs[f]) :
                scoreFor(ffDocs[f][i], ffSemantic, ffHint) < 25)
            => ffResult.kind = "none"
        /\ ffResult.kind = "found" =>
            scoreFor(ffDocs[ffResult.frame][ffResult.idx + 1], ffSemantic, ffHint) >= 25

\* C4 witness: a document whose inputs all score below 25, one of them above
\* 0, and the call returned none.
C4_Witness ==
    /\ ffPc = "done" /\ ffResult.kind = "none"
    /\ \E i \in 1..Len(ffDocs[0]) :
          scoreFor(ffDocs[0][i], ffSemantic, ffHint) \in 1..24

\* the value writes of autoFill: everything but the clearing fill('')
C5_ValueOps == {"type", "partial", "fill", "script"}

\* C5: for a hint matching /password/i, autoFill never writes its value into an
\* element of type text while the same document holds a type=password element
\* whose password-role score is at least 25.
C5_NoTextWriteBesidePassword ==
    RegexTest({<<<<"p", "a", "s", "s", "w", "o", "r", "d">>>>}, HintToString(afHint)) =>
        \A k \in 1..Len(afWrites) :
            LET w == afWrites[k]
                doc == afDocs[w.frame]
            IN (w.op \in C5_ValueOps /\ w.idx >= 0 /\ ElType(doc[w.idx + 1]) = "text") =>
                   ~\E i \in 1..Len(doc) :
                        /\ doc[i].typeAttr = "password"
                        /\ scoreFor(doc[i], "password", HintToString(afHint)) >= 25

\* the document of C6: <input id="u"> with its label 'Username', then
\* <input type="password">, filled by the enhanced autoFill
C6_Scenario == afVariant = "enhanced" /\ afDocs[0] = <<UsernameInput, PasswordInput>>
C6_AllWritesTo(i) == \A k \in 1..Len(afWrites) : afWrites[k].frame = 0 /\ afWrites[k].idx = i

\* C6: on the login document a username hint writes only into the labelled
\* input and a password hint only into the password input; a call that returns
\* has written its value there, and a call none of whose awaited steps was
\* rejected returns after clearing and typing into that field.
C6_LoginFieldsFilled ==
    C6_Scenario =>
        LET target == IF afHint = HintUsernameRx THEN 0 ELSE 1
        IN (afHint \in {HintUsernameRx, HintPasswordRx, HintPasswordStr}) =>
             /\ C6_AllWritesTo(target)
             /\ afPc = "returned" =>
                  /\ afWrites # <<>>
                  /\ afWrites[Len(afWrites)].op \in {"type", "fill"}
             /\ (afPc \in {"returned", "threw"} /\ ~afFailed) =>
                  /\ afPc = "returned"
                  /\ afWrites = <<Wr(0, target, "clear"), Wr(0, target, "type")>>

\* C6 witness: the password hint on the login document, returned with the
\* value typed into the password input.
C6_Witness ==
    /\ C6_Scenario /\ afHint = HintPasswordRx /\ afPc = "returned" /\ ~afFailed
    /\ afWrites = <<Wr(0, 1, "clear"), Wr(0, 1, "type")>>

\* the strategy order C7 states, and the order the two resolvers are to follow
C7_ClaimedOrder ==
    << "role=button", "role=link", "label", "placeholder", "text",
       "data-testid", "aria-label*=", "title*=", "button:has-text", "a:has-text" >>
C7_EnhancedOrder ==
    << "role=button", "role=link", "role=textbox", "label", "placeholder", "text",
       "data-testid", "aria-label*=", "title*=", "button:has-text", "a:has-text" >>
C7_BackupOrder ==
    << "role=button", "role=link", "label", "placeholder", "text", "data-testid" >>
\* the scan of `order` over the first nctx contexts (1 = the page, i + 2 = frame i)
C7_Scan(order, nctx) ==
    [k \in 1..(nctx * Len(order)) |->
        <<((k - 1) \div Len(order)) + 1, order[((k - 1) % Len(order)) + 1]>>]
C7_FullScan(v) ==
    IF v = "enhanced" THEN C7_Scan(C7_EnhancedOrder, NumChildFrames + 2)
    ELSE C7_Scan(C7_BackupOrder, 1)
\* match count the page holds for entry e = <<context index, strategy>> of a scan
C7_Count(q, e) == q[<<IF e[1] = 1 THEN 0 ELSE e[1] - 2, e[2]>>]
IsPrefix(s, t) == Len(s) <= Len(t) /\ SubSeq(t, 1, Len(s)) = s

\* C7 (as stated): the queries evaluated are a prefix of the scan of the ten
\* strategies role=button, role=link, label, placeholder, text, data-testid,
\* aria-label, title, button:has-text, a:has-text over the contexts, ending at
\* the first match.
C7_OrderAsClaimed ==
    rlPc = "done" =>
        /\ IsPrefix(rlResult.log, C7_Scan(C7_ClaimedOrder, NumChildFrames + 2))
        /\ rlResult.found => rlResult.log[Len(rlResult.log)] = <<rlResult.ctx, rlResult.strat>>

\* C7 (amended): the queries evaluated are a prefix of the scan, context by
\* context, of the resolver's own list (enhanced: role=button, role=link,
\* role=textbox, label, placeholder, text, data-testid, aria-label, title,
\* button:has-text, a:has-text over the page and every frame; older: the first
\* six without role=textbox, on the page only); the scan stops at its first
\* match, which is the result, and goes to the end only when nothing matched.
C7_FixedOrderFirstMatch ==
    rlPc = "done" =>
        LET log == rlResult.log
            scan == C7_FullScan(rlVariant)
        IN /\ IsPrefix(log, scan)
           /\ \A i \in 1..(Len(log) - 1) : C7_Count(rlPage, log[i]) <= 0
           /\ IF rlResult.found
              THEN /\ log # <<>>
                   /\ log[Len(log)] = <<rlResult.ctx, rlResult.strat>>
                   /\ C7_Count(rlPage, log[Len(log)]) > 0
              ELSE /\ log = scan
                   /\ \A i \in 1..Len(log) : C7_Count(rlPage, log[i]) <= 0

\* C7 witness: a match in a frame after the page's whole list was tried in
\* vain, with a later match left unevaluated.
C7_Witness ==
    /\ rlPc = "done" /\ rlVariant = "enhanced" /\ rlResult.found
    /\ rlResult.ctx > 1
    /\ \E k \in QueryKeys : rlPage[k] > 0 /\ k # <<rlResult.ctx - 2, rlResult.strat>>
                            /\ \A i \in 1..Len(rlResult.log) :
                                 rlResult.log[i] # <<k[1] + 2, k[2]>>

\* C8: a query that throws or matches nothing never ends the call: the result
\* is the first match of the scan when the page holds one in a scanned context,
\* whatever threw before it and whether or not the scroll succeeded, and none
\* (a normal return) when it holds no match; every throwing query is followed
\* by the next query of the scan.
C8_FailuresFallThrough ==
    rlPc = "done" =>
        LET scan == C7_FullScan(rlVariant)
            hits == {i \in 1..Len(scan) : C7_Count(rlPage, scan[i]) > 0}
        IN /\ rlResult.found <=> hits # {}
           /\ rlResult.found =>
                \E i \in hits : /\ scan[i] = <<rlResult.ctx, rlResult.strat>>
                                /\ \A j \in hits : i <= j
           /\ \A i \in 1..Len(rlResult.log) :
                QThrows(C7_Count(rlPage, rlResult.log[i])) =>
                    (i < Len(rlResult.log) \/ i = Len(scan))

\* C8 witness: a query threw, a later one matched, the scroll was rejected, and
\* the match was returned.
C8_Witness ==
    /\ rlPc = "done" /\ rlResult.found /\ ~rlScrollOk
    /\ \E i \in 1..Len(rlResult.log) : QThrows(C7_Count(rlPage, rlResult.log[i]))

\* the order of attempts C9 states
C9_ClaimedOrder ==
    <<"scorer", "label", "placeholder", "role=textbox", "name", "proximity", "positional">>
\* what autoFill attempted, the DOM-ready wait left out
C9_Tried == SelectSeq(afLog, LAMBDA s : s # "ready")

\* C9 (as stated): the error is raised only after the scorer, the fixed list
\* label, placeholder, role textbox, name attribute, the text-proximity
\* heuristic and the positional fallback were tried in this order.
C9_RaisesAfterClaimedOrder ==
    afPc = "threw" => C9_Tried = C9_ClaimedOrder

\* the role-specific list of the enhanced autoFill, written out
C9_EnhancedList ==
    IF IsPasswordHint(afHint) THEN <<"type=password", "label", "placeholder", "name*=pass">>
    ELSE IF IsUsernameHint(afHint) THEN <<"label", "placeholder", "role=textbox", "type=text">>
    ELSE IF IsCodeHint(afHint)
    THEN <<"autocomplete*=one-time-code", "placeholder=code", "name*=code">>
    ELSE <<"label", "placeholder", "role=textbox">>
\* the attempts of the older autoFill, written out
C9_OlderList ==
    <<"label", "placeholder", "role=textbox", "name", "proximity", "positional">>
    \o (IF afVariant = "older" THEN <<"smartFind", "autoFixElement">> ELSE <<>>)
\* the full orders a call of this variant can have gone through
C9_FullOrders ==
    IF afVariant = "enhanced"
    THEN {<<"ready">> \o C9_EnhancedList, <<"ready", "scorer">> \o C9_EnhancedList}
    ELSE {C9_OlderList}

\* C9 (amended): the error is raised only after every attempt of the variant
\* was made in the variant's order and failed, and it names the hint; a call
\* that returns stopped at the attempt that wrote the value, a prefix of that
\* order, and raised nothing.
C9_RaisesAfterOwnFallbacks ==
    /\ afPc = "threw" => (afLog \in C9_FullOrders /\ afError = HintToString(afHint))
    /\ afPc # "threw" => afError = <<>>
    /\ afPc = "returned" =>
         /\ \E full \in C9_FullOrders : IsPrefix(afLog, full)
         /\ afWrites # <<>>
         /\ afWrites[Len(afWrites)].op \in {"type", "fill", "script"}

\* C9 witness: the older autoFill raised after a matched strategy's fill was
\* rejected and every later fallback failed too.
C9_Witness ==
    /\ afPc = "threw" /\ afVariant = "older" /\ afFailed
    /\ \E i \in 1..Len(afDocs[0]) : Matches("label", afDocs[0][i], afHint)

\* whether autoClick found an element to click
C10_Resolved ==
    IF acVariant = "enhanced"
    THEN \E i \in 1..Len(Frames), s \in 1..Len(ClickStrategies) :
            acPage[<<Frames[i], ClickStrategies[s]>>] > 0
    ELSE acLoc.found
\* the raw click-event dispatches on the element of attempt a
C10_Dispatches(a) ==
    {j \in 1..Len(acLog) : /\ acLog[j].op = "dispatch"
                           /\ acLog[j].ctx = a.ctx /\ acLog[j].strat = a.strat}

\* C10: when an error leaves autoClick, every rejected timed click on a resolved
\* element was followed by exactly one raw click-event dispatch on that element;
\* a call whose dispatch succeeded returned normally; and a call that resolved
\* no element ended with the error naming the hint.
C10_DispatchOnceBeforeError ==
    /\ acPc = "threw" =>
         \A i \in 1..Len(acLog) :
            (acLog[i].op = "click" /\ ~acLog[i].ok) =>
                Cardinality(C10_Dispatches(acLog[i])) = 1
    /\ (acLog # <<>> /\ acLog[Len(acLog)].op = "dispatch" /\ acLog[Len(acLog)].ok) =>
         acPc = "returned"
    /\ (acPc \in {"returned", "threw"} /\ ~C10_Resolved) =>
         (acPc = "threw" /\ acError = [kind |-> "autoClick", hint |-> HintToString(acHint)])

\* the positions of the scan of invocation i whose query matched 1 to 3 elements
C11_Matching ==
    {pos \in 0..(Len(SgContexts) * NumCandidates - 1) :
        LET ctx == SgContexts[(pos \div NumCandidates) + 1]
            c == SgCandidates(sgHint)[(pos % NumCandidates) + 1]
        IN sgPage[<<ctx.frame, c.query>>] \in 1..3}

\* C11: every suggestion a finished suggestLocators returns has the selector of
\* a candidate whose query matched 1, 2 or 3 elements in a context with the
\* suggestion's frame URL, and the queries that matched 0 or more than 3
\* elements or threw pushed nothing: the suggestions pushed are exactly one per
\* query that matched 1 to 3 elements.
C11_OnlyFewMatches ==
    \A i \in SgCalls : sgPc[i] = "done" =>
        /\ \A n \in 1..Len(sgRet[i]) :
             \E pos \in C11_Matching :
                LET ctx == SgContexts[(pos \div NumCandidates) + 1]
                    c == SgCandidates(sgHint)[(pos % NumCandidates) + 1]
                IN /\ sgRet[i][n].selector = c.selector
                   /\ sgRet[i][n].frameUrl = ctx.frameUrl
        /\ Len(sgOut[i]) = Cardinality(C11_Matching)

\* C11 witness: a finished call that returned a suggestion from a page where
\* another scanned query matched 4 elements and a third one threw.
C11_Witness ==
    /\ sgPc[1] = "done" /\ sgRet[1] # <<>> /\ sgUrlFails = {}
    /\ \E k \in SgQueryKeys : sgPage[k] = 4
    /\ \E k \in SgQueryKeys : sgPage[k] < 0

C14_SortedByConfidence ==
    \A i \in SgCalls : sgPc[i] = "done" =>
        \A n \in 1..(Len(sgRet[i]) - 1) :
            sgRet[i][n].confidence >= sgRet[i][n + 1].confidence

\* C14 witness: a finished call whose suggestions were produced in an order
\* other than the returned one.
C14_Witness ==
    /\ sgPc[1] = "done" /\ Len(sgRet[1]) >= 2
    /\ sgRet[1] # SgUnique(sgOut[1])

\* the reasons lists C15 scores: none, those of each candidate, and those of
\* the data-testid and aria-label candidates together
C15_Reasons ==
    {<<>>, SgCandidates(<<>>)[5].reasons \o SgCandidates(<<>>)[7].reasons}
    \cup {SgCandidates(<<>>)[ci].reasons : ci \in 1..NumCandidates}

\* C15: the confidence of every suggestion produced is an integer from 0 to
\* 100, and so is the score of every combination of API kind, uniqueness,
\* visibility and reasons (evaluated once, before the scans start).
C15_ConfidenceInRange ==
    /\ \A i \in SgCalls : \A n \in 1..Len(sgOut[i]) : sgOut[i][n].confidence \in 0..100
    /\ (\A i \in SgCalls : sgPos[i] = 0) =>
          \A api \in {"getByRole", "getByLabel", "getByText", "locator"},
             unique \in BOOLEAN, visible \in BOOLEAN, reasons \in C15_Reasons :
               suggestScoreFor([api |-> api, unique |-> unique, visible |-> visible,
                                reasons |-> reasons]) \in 0..100

\* C15 witness: a returned suggestion whose points add up to less than 0 and
\* whose confidence is 0.
C15_Witness ==
    /\ sgPc[1] = "done"
    /\ \E n \in 1..Len(sgRet[1]) :
          /\ sgRet[1][n].confidence = 0
          /\ sgRet[1][n].api = "locator" /\ ~sgRet[1][n].unique /\ ~sgRet[1][n].visible

\* C16: no two returned suggestions have the same selector text and frame URL,
\* and the one returned for a pair is the first one produced with that pair.
C16_UniquePairs ==
    \A i \in SgCalls : sgPc[i] = "done" =>
        /\ \A a \in 1..Len(sgRet[i]), b \in 1..Len(sgRet[i]) :
             (a # b) => <<sgRet[i][a].selector, sgRet[i][a].frameUrl>>
                         # <<sgRet[i][b].selector, sgRet[i][b].frameUrl>>
        /\ \A a \in 1..Len(sgRet[i]) :
             \E n \in 1..Len(sgOut[i]) :
                /\ sgOut[i][n] = sgRet[i][a]
                /\ \A m \in 1..(n - 1) :
                     <<sgOut[i][m].selector, sgOut[i][m].frameUrl>>
                     # <<sgRet[i][a].selector, sgRet[i][a].frameUrl>>

\* C16 witness: a child frame with the URL of the page produced a suggestion
\* with the pair of an earlier one but other flags, and the call finished.
C16_Witness ==
    /\ sgPc[1] = "done"
    /\ \E n \in 1..Len(sgOut[1]), m \in 1..Len(sgOut[1]) :
          /\ n < m
          /\ sgOut[1][n].selector = sgOut[1][m].selector
          /\ sgOut[1][n].frameUrl = sgOut[1][m].frameUrl
          /\ sgOut[1][n] # sgOut[1][m]

\* C17: when the test code holds placeholder_submitButton and the page holds
\* <button>Submit</button>, the finished suggestDummyReplacements has used the
\* bare hint for that pattern and returns for it at least one suggestion of the
\* role-based API whose selector refers to Submit.
C17_SubmitSuggested ==
    (/\ sdPc = "done"
     /\ Includes(sdCode, <<"p", "l", "a", "c", "e", "h", "o", "l", "d", "e", "r", "_", "s", "u", "b", "m", "i", "t", "B", "u", "t", "t", "o", "n">>)
     /\ \E i \in 1..Len(sdDocs[0]) : sdDocs[0][i] = SubmitButton) =>
        \E n \in 1..Len(sdOut) :
            /\ sdOut[n].key = <<"p", "l", "a", "c", "e", "h", "o", "l", "d", "e", "r", "_", "s", "u", "b", "m", "i", "t", "B", "u", "t", "t", "o", "n">>
            /\ \E j \in 1..Len(sdOut[n].suggestions) :
                  /\ sdOut[n].suggestions[j].api = "getByRole"
                  /\ Includes(ToLower(sdOut[n].suggestions[j].selector), <<"s", "u", "b", "m", "i", "t">>)

\* C18: every element with type=password and no other matching signal scores
\* at least 60 more under the password role than under the username role.
C18_NoOtherSignal(el) ==
    /\ el.autocomplete = <<>>
    /\ ~includesAny(ToLower(el.name \o el.id \o el.cls \o el.placeholder \o el.aria \o el.lbl),
                    TokUsername \cup TokPassword \cup TokEmail)
C18_PasswordTyped ==
    {el \in UNION {{ffDocs[f][i] : i \in 1..Len(ffDocs[f])} : f \in FrameNumbers} :
        el.typeAttr = "password" /\ C18_NoOtherSignal(el)}
C18_PasswordRoleAhead ==
    \A el \in C18_PasswordTyped :
        scoreFor(el, "password", ffHint) - scoreFor(el, "username", ffHint) >= 60
\* C18 witness: a call under the password role has returned such an element
C18_Witness ==
    /\ ffPc = "done" /\ ffSemantic = "password" /\ ffResult.kind = "found"
    /\ ffDocs[ffResult.frame][ffResult.idx + 1] \in C18_PasswordTyped


\* C19: getAllContexts returns the page followed by the frames of the page,
\* with every frame whose access fails left out.
C19_Working(c) == c.frame \notin gcBroken
C19_BrokenFramesLeftOut ==
    gcPc \in {"returned", "used"} =>
        gcContexts = <<PageCtx>> \o SelectSeq(Tail(getAllContexts(gcFrames)), C19_Working)

\* C20: debugStep waits STEP_DELAY_MS milliseconds when the variable is an
\* integer >= 0 and 1000 ms in every other case (unset, empty, non-numeric,
\* negative), and the wait comes before the optional pause.
C20_IsInteger(env) ==
    /\ env.set /\ env.text # <<>>
    /\ Number(env).kind = "num" /\ Number(env).exp = 0 /\ NonNegative(Number(env))
C20_Expected(env) == IF C20_IsInteger(env) THEN Number(env) ELSE JsInt(1000)
C20_WaitsAsDocumented ==
    dsPc \notin {"idle", "start"} =>
        /\ dsLog[1] = DsEvent("waitForTimeout", C20_Expected(dsDelayEnv))
        /\ \A i \in 1..Len(dsLog) : dsLog[i].ev = "pause" => i > 1

\* C21: the loading-indicator loop of ensureDomReady always ends; a probe is
\* made only inside the 15 s window and only while no earlier probe found the
\* page clear or threw, and such a probe ends the loop at once.
C21_LoopEnds ==
    /\ <>(edrPc \in {"returned", "threw"})
    /\ [][edrProbes' # edrProbes =>
            /\ edrPc = "probe" /\ now - edrStart < SpinnerWindowMs
            /\ edrLast \notin {"clear", "throws"}]_vars
    /\ [](edrLast \in {"clear", "throws"} => edrPc = "returned")
\* C21 witness: the loop ran out of its 15 s with the indicator still shown
C21_Witness ==
    /\ edrPc = "returned" /\ edrLast = "spinner"
    /\ now - edrStart >= SpinnerWindowMs /\ edrProbes * SpinnerPollMs >= SpinnerWindowMs

\* C22: autoExpectVisible returns a locator only when the resolver returned that
\* locator in the same poll iteration and the visibility check on it succeeded;
\* a resolved element that is not visible is not returned and polling goes on.
C22_ReturnsOnlyVisible ==
    /\ [](avPc = "returned" => avLoc # NoLoc /\ avResult = avLoc /\ avShown = "visible")
    /\ [](avShown = "hidden" => avPc = "sleep" /\ avResult = NoLoc)
    /\ [][avResult' # avResult => avPc = "visible" /\ avPc' = "returned"]_vars
\* C22 witness: a locator is returned after an earlier poll resolved an element
\* that was not visible
C22_Witness == avPc = "returned" /\ avLastErr = "not visible" /\ avShown = "visible"

\* C23: among suggestions with equal uniqueness and visibility flags the
\* confidence is strictly ordered by API kind (role above label above text above
\* raw locator); with the kind fixed a unique match has 30 points more than a
\* non-unique one and a visible first match 30 more than an invisible one,
\* before clamping.
C23_KindRank(api) ==
    CASE api = "getByRole" -> 4 [] api = "getByLabel" -> 3
      [] api = "getByText" -> 2 [] OTHER -> 1
C23_SameFlags(a, b) == a.unique = b.unique /\ a.visible = b.visible
C23_Produced == UNION {{sgOut[i][n] : n \in 1..Len(sgOut[i])} : i \in SgCalls}
C23_FlagsWorth30 ==
    \A a \in C23_Produced :
        /\ suggestPoints([a EXCEPT !.unique = TRUE])
             - suggestPoints([a EXCEPT !.unique = FALSE]) = 30
        /\ suggestPoints([a EXCEPT !.visible = TRUE])
             - suggestPoints([a EXCEPT !.visible = FALSE]) = 30
C23_StrictlyOrderedByKind ==
    /\ \A a \in C23_Produced, b \in C23_Produced :
          (C23_SameFlags(a, b) /\ C23_KindRank(a.api) > C23_KindRank(b.api))
              => a.confidence > b.confidence
    /\ C23_FlagsWorth30
\* C23 as the code has it: the order is strict from role to label to text; a
\* text suggestion is never below a raw-locator one but may equal it
C23_OrderedByKindUpToTies ==
    /\ \A a \in C23_Produced, b \in C23_Produced :
          (C23_SameFlags(a, b) /\ C23_KindRank(a.api) > C23_KindRank(b.api))
              => /\ a.confidence >= b.confidence
                 /\ (a.api # "getByText" => a.confidence > b.confidence)
    /\ C23_FlagsWorth30
\* C23 witness: a finished call with suggestions of all four kinds and equal
\* flags, the text one level with a raw-locator one
C23_Witness ==
    /\ sgPc[1] = "done"
    /\ \E a \in C23_Produced, b \in C23_Produced, c \in C23_Produced, d \in C23_Produced :
          /\ a.api = "getByRole" /\ b.api = "getByLabel"
          /\ c.api = "getByText" /\ d.api = "locator"
          /\ C23_SameFlags(a, b) /\ C23_SameFlags(b, c) /\ C23_SameFlags(c, d)
          /\ c.confidence = d.confidence /\ c.confidence > 0

\* C24: on a failure the DOM snapshot and the screenshot carry the same
\* timestamp; the snapshot is written before the screenshot, and a snapshot
\* that cannot be written does not prevent the screenshot.
C24_LogIndex(step) == CHOOSE i \in 1..Len(fxLog) : fxLog[i][1] = step
C24_SameTimestamp ==
    fxPc = "suspended" =>
        /\ \A f \in fxFiles, g \in fxFiles : f[2] = g[2]
        /\ \E i \in 1..Len(fxLog) : fxLog[i][1] = "dom"
        /\ \E i \in 1..Len(fxLog) : fxLog[i][1] = "shot"
        /\ C24_LogIndex("dom") < C24_LogIndex("shot")

\* C25: in smartAction an action that threw is never run again; when
\* fixCommonIssues reports the error fixed (its message contains 'element not
\* found' or 'timeout' and the network-idle wait succeeded) the loop goes on with
\* the next action, in order; when it reports not fixed the original error
\* leaves smartAction and no later action runs.
C25_IsRun(e) == e.ev = "run"
C25_Runs == SelectSeq(smLog, C25_IsRun)
C25_SkipsOrRethrows ==
    /\ \A k \in 1..Len(C25_Runs) : C25_Runs[k].idx = k
    /\ \A n \in 1..Len(smLog) : smLog[n].ev = "fix" =>
          /\ smLog[n].fixed =
                (/\ smLog[n].idleOk
                 /\ \/ Includes(ToLower(smLog[n].msg), <<"e", "l", "e", "m", "e", "n", "t", " ", "n", "o", "t", " ", "f", "o", "u", "n", "d">>)
                    \/ Includes(ToLower(smLog[n].msg), <<"t", "i", "m", "e", "o", "u", "t">>))
          /\ smLog[n].fixed =>
                (n < Len(smLog) => /\ smLog[n + 1].ev = "run"
                                   /\ smLog[n + 1].idx = smLog[n].idx + 1)
          /\ ~smLog[n].fixed =>
                /\ n = Len(smLog) /\ smPc = "threw" /\ smThrown = smLog[n].msg
\* C25 witness: an action threw, the error was reported fixed, and the action
\* after it ran
C25_Witness ==
    /\ smPc = "done"
    /\ \E n \in 1..(Len(smLog) - 1) :
          smLog[n].ev = "fix" /\ smLog[n].fixed /\ smLog[n + 1].ev = "run"

\* C29: understandPrompt emits actions in the order of its pattern table
\* (navigate, the two login fills, click, fill, verify, wait) whatever the order
\* of the phrases in the prompt; each pattern contributes at most once, for the
\* leftmost phrase of its kind, so there are never more than 7 actions.
C29_PatternIndex(a) == CHOOSE k \in 1..Len(PatternTable) : PatternTable[k] = smPrompt[a.pos]
C29_ExpectedTypes ==
    <<"navigate", "fill", "fill", "click", "fill", "verify", "wait">>
C29_Slot(a) ==
    IF C29_PatternIndex(a) = 1 THEN 1
    ELSE IF C29_PatternIndex(a) = 2 THEN 1 + a.part
    ELSE C29_PatternIndex(a) + 1
C29_TableOrder ==
    /\ Len(smActions) <= 7
    /\ \A n \in 1..Len(smActions) :
          /\ smActions[n].pos \in 1..Len(smPrompt)
          /\ smPrompt[smActions[n].pos] # "other"
          /\ \A j \in 1..(smActions[n].pos - 1) : smPrompt[j] # smPrompt[smActions[n].pos]
          /\ smActions[n].type = C29_ExpectedTypes[C29_Slot(smActions[n])]
    /\ \A n \in 1..(Len(smActions) - 1) : C29_Slot(smActions[n]) < C29_Slot(smActions[n + 1])
    /\ \A i \in 1..Len(smPrompt) :
          smPrompt[i] # "other" =>
              \E n \in 1..Len(smActions) : smPrompt[smActions[n].pos] = smPrompt[i]
\* C29 witness: smartAction has run the 7 actions of a prompt that names every
\* phrase kind twice, last pattern first
C29_Witness ==
    /\ smPc = "done" /\ smPrompt = ReversedPrompt \o ReversedPrompt
    /\ Len(smActions) = 7 /\ Len(C25_Runs) = 7

\* C26: findFieldLocator returns the best-scoring element of the first context,
\* in enumeration order, whose best score is at least 25, whatever later
\* contexts hold; of several elements with the best score of that context the
\* earliest in document order is returned.
C26_Score(f, i) == scoreFor(ffDocs[f][i], ffSemantic, ffHint)
C26_IsBest(f, i) == \A j \in 1..Len(ffDocs[f]) : C26_Score(f, j) <= C26_Score(f, i)
C26_Qualifies(f) == \E i \in 1..Len(ffDocs[f]) : C26_Score(f, i) >= 25
C26_FirstQualifyingContext ==
    (ffPc = "done" /\ ffResult.kind # "threw") =>
        LET contexts == getAllContexts(Frames)
        IN /\ ffResult.kind = "none" =>
                \A c \in 1..Len(contexts) : ~C26_Qualifies(contexts[c].frame)
           /\ ffResult.kind = "found" =>
                /\ contexts[ffResult.ctx].frame = ffResult.frame
                /\ \A c \in 1..(ffResult.ctx - 1) : ~C26_Qualifies(contexts[c].frame)
                /\ C26_Qualifies(ffResult.frame)
                /\ C26_IsBest(ffResult.frame, ffResult.idx + 1)
                /\ \A j \in 1..ffResult.idx :
                      C26_Score(ffResult.frame, j) < C26_Score(ffResult.frame, ffResult.idx + 1)
\* C26 witness: the first of two equal elements of the page is returned while a
\* child frame holds an element with a higher score
C26_Witness ==
    /\ ffPc = "done" /\ ffResult.kind = "found" /\ ffResult.ctx = 1 /\ ffResult.idx = 0
    /\ Len(ffDocs[0]) = 2 /\ C26_Score(0, 1) = C26_Score(0, 2)
    /\ \E f \in FrameNumbers : \E i \in 1..Len(ffDocs[f]) : C26_Score(f, i) > C26_Score(0, 1)

\* C27: in the enhanced autoFill a failure on the scorer path after an element
\* was found (the focus click, the clear or the typing rejects) does not leave
\* the call: the fallback strategies of the hint's list are tried next, so one
\* call can write into the scorer's element and then fill a fallback element;
\* the call raises its error only when no fallback strategy filled anything.
C27_ListTried ==
    \A k \in 1..Len(EnhancedFallback(afHint)) :
        \E n \in 1..Len(afLog) : afLog[n] = EnhancedFallback(afHint)[k]
C27_FailureFallsThrough ==
    /\ [](afVariant = "enhanced" /\ afPc = "threw" =>
            /\ afError = HintToString(afHint)
            /\ C27_ListTried
            /\ \A n \in 1..Len(afWrites) : afWrites[n].op # "fill")
    /\ [][(afVariant = "enhanced" /\ afPc \in {"click", "clear", "type"}
              /\ ~afFailed /\ afFailed')
            => afPc' = "list" /\ afK' = 1]_vars
\* C27 witness: the call returned after the scorer's element was cleared and
\* partly typed into and a fallback strategy then filled another element
C27_Witness ==
    /\ afVariant = "enhanced" /\ afPc = "returned" /\ Len(afWrites) = 3
    /\ afWrites[1].op = "clear" /\ afWrites[2].op = "partial" /\ afWrites[3].op = "fill"
    /\ <<afWrites[3].frame, afWrites[3].idx>> # <<afWrites[1].frame, afWrites[1].idx>>

\* C28: autoFill infers one semantic role per hint with the precedence
\* password, one-time code, username, generic text, and the fallback strategy
\* list it uses after a scorer miss is the list of that same role.
C28_ListOfRole(semantic) ==
    CASE semantic = "password" -> FallbackPassword
      [] semantic = "code" -> FallbackCode
      [] semantic = "username" -> FallbackUsername
      [] OTHER -> FallbackText
C28_IsFallback(name) == name \notin {"ready", "scorer"}
C30_Entries(table) ==
    LET RECURSIVE Sum(_)
        Sum(keys) == IF keys = {} THEN 0
                     ELSE LET k == CHOOSE x \in keys : TRUE
                          IN Len(table[k]) + Sum(keys \ {k})
    IN Sum(DOMAIN table)

RECURSIVE C30_AllMatches(_)
\* the locator occurrences of every call so far, in call order
C30_AllMatches(calls) ==
    IF calls = <<>> THEN <<>>
    ELSE LocatorMatches(Head(calls)) \o C30_AllMatches(Tail(calls))

\* the occurrences that belong under one key
C30_ForKey(matches, key) == SelectSeq(matches, LAMBDA m : extractContext(m) = key)

\* the table holds, under the four keys only, every locator occurrence of every
\* call so far, repeats included
C30_HoldsWholeHistory ==
    lsPc = "ready" =>
        /\ DOMAIN lsLocators \subseteq LearnContexts
        /\ \A key \in LearnContexts :
              Recommended(lsLocators, key) = C30_ForKey(C30_AllMatches(lsCalls), key)

\* a step keeps every key and every list as a prefix of the new list, and a
\* learnFromTest call adds as many entries as its input has locator occurrences
C30_StepOnlyAppends ==
    /\ \A key \in DOMAIN lsLocators :
          /\ key \in DOMAIN lsLocators'
          /\ IsPrefix(lsLocators[key], lsLocators'[key])
    /\ lsCalls' # lsCalls =>
          C30_Entries(lsLocators') =
              C30_Entries(lsLocators) + Len(LocatorMatches(lsCalls'[Len(lsCalls')]))

\* C30: after any sequence of learnFromTest calls the learned-locator table has
\* keys only from button, input, text and generic, no entry is ever removed
\* or shortened, and each call appends one entry per locator occurrence of its
\* input, so a repeated call duplicates its entries and the table keeps growing.
C30_TableOnlyGrows == []C30_HoldsWholeHistory /\ [][C30_StepOnlyAppends]_vars

\* C30 witness: the same test code learned twice has left its locator twice
\* under the button key.
C30_Witness ==
    /\ lsCalls = <<CodeRoleClick, CodeRoleClick>>
    /\ "button" \in DOMAIN lsLocators
    /\ lsLocators["button"] = LocatorMatches(CodeRoleClick) \o LocatorMatches(CodeRoleClick)
    /\ Len(lsLocators["button"]) = 2

====
